---- MODULE Spec2Model ----
(***************************************************************************)
(* Flow enrichment of tretorritraffic: the segment capacity mapping built  *)
(* from streetSegments (scripts/enrich_flows.js) and deriveFlowMetrics,    *)
(* the BPR inversion applied to one travel-time sample (Spec); the length  *)
(* of a coordinate sequence (LengthSpec); the dashboard's snapshot         *)
(* bucketing, range selection and snapshot selection, frontend/src/App.tsx *)
(* (BucketSpec, AppSpec, SnapshotSpec); the data file under appends and    *)
(* enrichment runs (FileSpec); and collectSamples run by the poll control  *)
(* server (PollSpec).                                                      *)
(*                                                                         *)
(* JavaScript numbers are modelled as tagged values: a finite number in    *)
(* fixed point (FP units per 1.0), Number.MIN_VALUE, Infinity, NaN, or     *)
(* null.  Arithmetic on the special values follows IEEE 754 as the         *)
(* JavaScript operators do; arithmetic on finite values truncates to the   *)
(* fixed-point resolution.                                                 *)
(***************************************************************************)
EXTENDS Integers, Sequences, FiniteSets, TLC

VARIABLES
    streetSegments,   \* the exported, mutable segment array (src/segments.js)
    segmentMetadata,  \* Map id -> resolved record, built by the reduction
    configDirty,      \* streetSegments was mutated after the mapping was built
    droppedByReload,  \* ids the latest rebuild removed, until the array changes again
    lastSample,       \* argument of the most recent deriveFlowMetrics call
    lastOutcome,      \* "none" | "returned" | "threw"
    lastResult,       \* record returned by that call
    endpointsArg,     \* argument of a computeSegmentLengthMeters call
    lengthOutcome,    \* "none" | "returned", and the value returned
    timezoneOffset,   \* minutes the browser's local time is ahead of UTC
    samples,          \* App state: the parsed dataset, in file order
    timePreset,       \* App state: the selected time window preset
    customStart,      \* App state: value of the custom start input
    customEnd,        \* App state: value of the custom end input
    snapshotKey,      \* App state: key of the current snapshot, or null
    isPlaybackActive, \* App state: the playback interval is running
    effectsPending,   \* a render was committed whose effects have not run yet
    dataFile,         \* data/traffic_samples.jsonl: its lines, each ended by a newline
    backupFile,       \* the backup enrichSamples writes before it overwrites
    enrichPc,         \* position of the enrichSamples run: "idle" | "read" | "backedUp"
    enrichRaw,        \* the lines that run read
    enrichRuns,       \* enrichSamples runs started so far
    appended,         \* every sample appendSamples has written, in order
    clock,            \* the time, in ticks, that stamps requestedAt
    pollSegments,     \* streetSegments as collectSamples reads it
    isPolling,        \* the flag of the poll control server
    pollPc,           \* position of collectSamples: "idle" | "starting" | "collecting" | "returned"
    segmentIndex,     \* collectSamples: the segment of the outer loop
    directionIndex,   \* collectSamples: the direction of the inner loop
    collected,        \* collectSamples: the array samples
    requested,        \* route requests of the current poll: id, direction, outcome
    lastResponse,     \* the latest response of the server
    pollsStarted,     \* polls accepted so far
    collectionsRunning \* collectSamples calls of the server that have not ended

flowVars ==
    <<streetSegments, segmentMetadata, configDirty, droppedByReload,
      lastSample, lastOutcome, lastResult>>

lengthVars == <<endpointsArg, lengthOutcome>>

appVars ==
    <<timezoneOffset, samples, timePreset, customStart, customEnd,
      snapshotKey, isPlaybackActive, effectsPending>>

fileVars == <<dataFile, backupFile, enrichPc, enrichRaw, enrichRuns, appended, clock>>

pollVars ==
    <<pollSegments, isPolling, pollPc, segmentIndex, directionIndex, collected,
      requested, lastResponse, pollsStarted, collectionsRunning>>

opsVars == <<fileVars, pollVars>>

vars == <<flowVars, lengthVars, appVars, opsVars>>

(***************************************************************************)
(* Bounds of the model.                                                    *)
(***************************************************************************)
\* fixed-point resolution: FP units make 1.0
FP == 100
\* longest streetSegments array explored
MaxSegments == 3

(***************************************************************************)
(* JavaScript number values.                                               *)
(***************************************************************************)
Num(n) == [t |-> "num", v |-> n]
NULL == [t |-> "null", v |-> 0]
INFINITY == [t |-> "inf", v |-> 0]
NAN == [t |-> "nan", v |-> 0]
\* Number.MIN_VALUE, the smallest positive double (5e-324)
MIN_VALUE == [t |-> "min", v |-> 0]

\* whole number k as a value
Whole(k) == Num(k * FP)

\* x == null  (also true of undefined, which ?? null has already folded)
IsNull(x) == x.t = "null"

\* Number.isFinite(x): no coercion, so null is not finite
IsFinite(x) == x.t \in {"num", "min"}

\* truthiness of a number-or-null value
Truthy(x) ==
    CASE x.t = "num" -> x.v # 0
      [] x.t \in {"min", "inf"} -> TRUE
      [] OTHER -> FALSE

\* a > b for b finite; every comparison with NaN is false, null compares as 0
JsGt(a, b) ==
    CASE a.t = "num" -> a.v > b.v
      [] a.t = "null" -> 0 > b.v
      [] a.t = "min" -> b.v <= 0
      [] a.t = "inf" -> TRUE
      [] OTHER -> FALSE

\* a <= b for b finite
JsLe(a, b) ==
    CASE a.t = "num" -> a.v <= b.v
      [] a.t = "null" -> 0 <= b.v
      [] a.t = "min" -> b.v > 0
      [] OTHER -> FALSE

\* a < b for b finite
JsLt(a, b) ==
    CASE a.t = "num" -> a.v < b.v
      [] a.t = "null" -> 0 < b.v
      [] a.t = "min" -> b.v > 0
      [] OTHER -> FALSE

\* a / b on non-negative operands
JsDiv(a, b) ==
    CASE a.t = "nan" \/ b.t = "nan" -> NAN
      [] a.t = "inf" -> IF b.t = "inf" THEN NAN ELSE INFINITY
      [] b.t = "inf" -> Num(0)
      [] b.t = "min" -> IF a.t = "min" THEN Num(FP)
                        ELSE IF a.v = 0 THEN Num(0) ELSE INFINITY
      [] a.t = "min" -> IF b.v = 0 THEN INFINITY ELSE Num(0)
      [] OTHER -> IF b.v = 0
                  THEN (IF a.v = 0 THEN NAN ELSE INFINITY)
                  ELSE Num((a.v * FP) \div b.v)

\* a * b on non-negative operands
JsMul(a, b) ==
    CASE a.t = "nan" \/ b.t = "nan" -> NAN
      [] a.t = "inf" -> IF b.t = "num" /\ b.v = 0 THEN NAN ELSE INFINITY
      [] b.t = "inf" -> IF a.t = "num" /\ a.v = 0 THEN NAN ELSE INFINITY
      [] a.t = "min" -> IF b.t = "num" /\ b.v < FP THEN Num(0) ELSE MIN_VALUE
      [] b.t = "min" -> IF a.t = "num" /\ a.v < FP THEN Num(0) ELSE MIN_VALUE
      [] OTHER -> Num((a.v * b.v) \div FP)

\* a - b for b finite
JsSub(a, b) ==
    CASE a.t = "num" -> Num(a.v - b.v)
      [] a.t = "min" -> Num(0 - b.v)
      [] OTHER -> a

\* Math.max(a, 0)
JsMax0(a) ==
    CASE a.t = "num" -> IF a.v > 0 THEN a ELSE Num(0)
      [] OTHER -> a

\* r^k <= x on naturals, by repeated division (no intermediate power is formed)
RECURSIVE PowLeq(_, _, _)
PowLeq(r, k, x) ==
    IF k = 0 THEN 1 <= x
    ELSE IF r = 0 THEN TRUE
    ELSE PowLeq(r, k - 1, x \div r)

\* the largest r in lo..hi with r^k <= x (lo satisfies it)
RECURSIVE RootSearch(_, _, _, _)
RootSearch(x, k, lo, hi) ==
    IF lo >= hi THEN lo
    ELSE LET mid == lo + ((hi - lo + 1) \div 2)
         IN  IF PowLeq(mid, k, x) THEN RootSearch(x, k, mid, hi)
             ELSE RootSearch(x, k, lo, mid - 1)

RECURSIVE IntPow(_, _)
IntPow(b, k) == IF k = 0 THEN 1 ELSE b * IntPow(b, k - 1)

\* Math.pow(a, 1 / k) for a >= 0 and a whole k >= 1
JsRoot(a, k) ==
    CASE a.t = "num" -> LET x == a.v * IntPow(FP, k - 1)
                        IN  Num(RootSearch(x, k, 0, x))
      [] a.t = "min" -> Num(0)
      [] OTHER -> a

\* a + b on finite non-negative operands (the running total of a length)
JsAdd(a, b) ==
    CASE a.t = "nan" \/ b.t = "nan" -> NAN
      [] a.t = "inf" \/ b.t = "inf" -> INFINITY
      [] a.t = "min" -> IF b.t = "num" /\ b.v # 0 THEN b ELSE a
      [] b.t = "min" -> a
      [] OTHER -> Num(a.v + b.v)

Abs(n) == IF n < 0 THEN 0 - n ELSE n

(***************************************************************************)
(* Segment configuration (src/segments.js).  Coordinates are whole         *)
(* multiples of 0.00001 degree.                                            *)
(***************************************************************************)
Point(lat, lon) == [latitude |-> lat, longitude |-> lon]

NoFlowModel == [defined |-> FALSE, alpha |-> NULL, beta |-> 0]

\* the value of `metadata = {}`: every field absent
EmptyMetadata ==
    [defined |-> TRUE, lanes |-> NULL, laneCapacityVph |-> NULL,
     speedLimitKph |-> NULL, flowModel |-> NoFlowModel]

\* a segment entry that has no metadata key at all
NoMetadata == [EmptyMetadata EXCEPT !.defined = FALSE]

ViaPontida ==
    [id |-> "via-pontida",
     endpoints |-> <<Point(4551781, 932296), Point(4551800, 932715)>>,
     metadata |-> [defined |-> TRUE, lanes |-> Whole(1), laneCapacityVph |-> Whole(750),
                   speedLimitKph |-> Whole(30), flowModel |-> NoFlowModel]]

\* an entry of the configuration without a metadata block
ViaMelghera ==
    [id |-> "via-melghera",
     endpoints |-> <<Point(4552004, 931954), Point(4552037, 931819)>>,
     metadata |-> NoMetadata]

\* the segment the test suite pushes at run time, with a flowModel override
TestFlowModelSegment ==
    [id |-> "test-flow-model-segment",
     endpoints |-> <<Point(4500000, 900000), Point(4500000, 900100)>>,
     metadata |-> [defined |-> TRUE, lanes |-> Whole(1), laneCapacityVph |-> Whole(1000),
                   speedLimitKph |-> NULL,
                   flowModel |-> [defined |-> TRUE, alpha |-> Num((30 * FP) \div 100),
                                  beta |-> 3]]]

\* a degenerate entry: a single endpoint and no lanes, so length is
\* unavailable and capacity is 0
ZeroLaneSegment ==
    [id |-> "zero-lane-stub",
     endpoints |-> <<Point(4551781, 932296)>>,
     metadata |-> [EmptyMetadata EXCEPT !.lanes = Whole(0)]]

\* the configuration at module load
ShippedSegments == <<ViaPontida, ViaMelghera>>

\* entries added to the array at run time
RuntimeSegments == {TestFlowModelSegment, ZeroLaneSegment}

SegmentPool == {ViaPontida, ViaMelghera} \cup RuntimeSegments

SegmentById(id) == CHOOSE s \in SegmentPool : s.id = id

(***************************************************************************)
(* Geodesic length (scripts/enrich_flows.js).                              *)
(***************************************************************************)
\* Great-circle distance in whole metres.  The sines and cosines of the
\* haversine form are replaced by their values for the short spans of the
\* configured area (latitude 45.5 N): 1.11195 m per unit of latitude,
\* 0.77914 m per unit of longitude, combined by Pythagoras.
haversineDistanceMeters(a, b) ==
    LET north == (Abs(b.latitude - a.latitude) * 111195) \div 100000
        east == (Abs(b.longitude - a.longitude) * 77914) \div 100000
        sq == (north * north) + (east * east)
    IN  Whole(RootSearch(sq, 2, 0, sq))

RECURSIVE SumLegs(_, _, _)
SumLegs(endpoints, i, total) ==
    IF i > Len(endpoints) - 1 THEN total
    ELSE SumLegs(endpoints, i + 1,
                 JsAdd(total, haversineDistanceMeters(endpoints[i], endpoints[i + 1])))

\* variant: fewer than 2 points give 0
computeSegmentLengthMeters_ZeroWhenShort(endpoints) ==
    IF Len(endpoints) < 2 THEN Num(0)
    ELSE SumLegs(endpoints, 1, Num(0))

\* variant: the distance from the first point straight to the last
computeSegmentLengthMeters_EndToEnd(endpoints) ==
    IF Len(endpoints) < 2 THEN NULL
    ELSE haversineDistanceMeters(endpoints[1], endpoints[Len(endpoints)])

computeSegmentLengthMeters(endpoints) ==
    IF Len(endpoints) < 2 THEN NULL
    ELSE SumLegs(endpoints, 1, Num(0))

(***************************************************************************)
(* Segment capacity mapping (scripts/enrich_flows.js).                     *)
(***************************************************************************)
\* a ?? b
Coalesce(a, b) == IF IsNull(a) THEN b ELSE a

DefaultLanes == Whole(1)
DefaultLaneCapacityVph == Whole(900)

\* variant: the defaults applied with || instead of ??, so a configured 0
\* is replaced as well
resolveSegment_FalsyDefaults(segment) ==
    LET metadata == IF segment.metadata.defined THEN segment.metadata ELSE EmptyMetadata
        lanes == IF Truthy(metadata.lanes) THEN metadata.lanes ELSE DefaultLanes
        laneCapacity == IF Truthy(metadata.laneCapacityVph)
                        THEN metadata.laneCapacityVph ELSE DefaultLaneCapacityVph
    IN  [id |-> segment.id,
         lengthMeters |-> computeSegmentLengthMeters(segment.endpoints),
         lanes |-> lanes,
         capacityVph |-> JsMul(lanes, laneCapacity),
         speedLimitKph |-> Coalesce(metadata.speedLimitKph, NULL)]

\* the record the reducer stores for one segment
resolveSegment(segment) ==
    LET metadata == IF segment.metadata.defined THEN segment.metadata ELSE EmptyMetadata
        lengthMeters == computeSegmentLengthMeters(segment.endpoints)
        lanes == Coalesce(metadata.lanes, DefaultLanes)
        laneCapacity == Coalesce(metadata.laneCapacityVph, DefaultLaneCapacityVph)
        capacityVph == JsMul(lanes, laneCapacity)
    IN  [id |-> segment.id,
         lengthMeters |-> lengthMeters,
         lanes |-> lanes,
         capacityVph |-> capacityVph,
         speedLimitKph |-> Coalesce(metadata.speedLimitKph, NULL)]

\* acc.set(id, record)
MapSet(acc, id, record) ==
    [k \in (DOMAIN acc) \cup {id} |-> IF k = id THEN record ELSE acc[k]]

EmptyMap == [k \in {} |-> NULL]

\* the reducer applied from entry i on
RECURSIVE ReduceSegments(_, _, _)
ReduceSegments(segments, i, acc) ==
    IF i > Len(segments) THEN acc
    ELSE ReduceSegments(segments, i + 1,
                        MapSet(acc, segments[i].id, resolveSegment(segments[i])))

\* variant: the reduction seeded with the mapping already held, so entries
\* of removed segments stay
buildSegmentMetadata_KeepsOldEntries(segments) ==
    ReduceSegments(segments, 1, segmentMetadata)

\* the reduction over the array, seeded with new Map()
buildSegmentMetadata(segments) == ReduceSegments(segments, 1, EmptyMap)

(***************************************************************************)
(* Flow derivation (scripts/enrich_flows.js).                              *)
(***************************************************************************)
BPR_ALPHA == Num((15 * FP) \div 100)
BPR_BETA == 4

\* the confidence thresholds 0.8 and 1.2
HighConfidenceMax == Num((8 * FP) \div 10)
MediumConfidenceMax == Num((12 * FP) \div 10)

\* the factor 3.6 from m/s to km/h
KphPerMps == Num((36 * FP) \div 10)

\* segmentMetadata.get(id) found an entry
HasMeta(id) == id \in DOMAIN segmentMetadata

\* variant: an unknown segment is given the default capacity
UnknownSegmentMetrics_DefaultCapacity ==
    [capacityVph |-> DefaultLaneCapacityVph,
     lengthMeters |-> NULL,
     freeFlowSpeedKph |-> NULL,
     volumeCapacityRatio |-> NULL,
     derivedFlowVph |-> NULL,
     flowConfidence |-> "low"]

\* the record returned for a segment that is not in the mapping
UnknownSegmentMetrics ==
    [capacityVph |-> NULL,
     lengthMeters |-> NULL,
     freeFlowSpeedKph |-> NULL,
     volumeCapacityRatio |-> NULL,
     derivedFlowVph |-> NULL,
     flowConfidence |-> "low"]

\* variant: the test staticDuration > 0 is missing, so a negative static
\* duration yields a (negative) speed
freeFlowSpeedKphOf_NoSignCheck(lengthMeters, staticDuration) ==
    IF ~IsNull(lengthMeters) /\ Truthy(staticDuration)
    THEN JsMul(JsDiv(lengthMeters, staticDuration), KphPerMps)
    ELSE NULL

freeFlowSpeedKphOf(lengthMeters, staticDuration) ==
    IF ~IsNull(lengthMeters) /\ Truthy(staticDuration) /\ JsGt(staticDuration, Num(0))
    THEN JsMul(JsDiv(lengthMeters, staticDuration), KphPerMps)
    ELSE NULL

\* variant: < 0 in place of <= 0, so a zero duration passes
cannotDeriveFlow_ZeroPasses(duration, staticDuration, capacityVph) ==
    \/ IsNull(duration)
    \/ IsNull(staticDuration)
    \/ JsLt(duration, Num(0))
    \/ JsLt(staticDuration, Num(0))
    \/ IsNull(capacityVph)
    \/ JsLt(capacityVph, Num(0))

\* the condition of the early return: flow cannot be derived
cannotDeriveFlow(duration, staticDuration, capacityVph) ==
    \/ IsNull(duration)
    \/ IsNull(staticDuration)
    \/ JsLe(duration, Num(0))
    \/ JsLe(staticDuration, Num(0))
    \/ IsNull(capacityVph)
    \/ JsLe(capacityVph, Num(0))

\* variant: the inversion applied to timeRatio itself, not to its excess
\* over 1, and without the free-flow branch
bprVolumeCapacityRatio_RatioNotExcess(duration, staticDuration) ==
    LET timeRatio == JsDiv(duration, staticDuration)
        raw == JsRoot(JsMax0(JsDiv(timeRatio, BPR_ALPHA)), BPR_BETA)
    IN  IF ~IsFinite(raw) THEN NULL
        ELSE IF JsLt(raw, Num(0)) THEN Num(0)
        ELSE raw

\* variant: the operands of the time ratio swapped
bprVolumeCapacityRatio_SwappedOperands(duration, staticDuration) ==
    LET timeRatio == JsDiv(staticDuration, duration)
        adjusted == JsDiv(JsSub(timeRatio, Num(FP)), BPR_ALPHA)
        raw == IF JsGt(timeRatio, Num(FP))
               THEN JsRoot(JsMax0(adjusted), BPR_BETA)
               ELSE Num(0)
    IN  IF ~IsFinite(raw) THEN NULL
        ELSE IF JsLt(raw, Num(0)) THEN Num(0)
        ELSE raw

\* the BPR inversion with the guard against extreme results
bprVolumeCapacityRatio(duration, staticDuration) ==
    LET timeRatio == JsDiv(duration, staticDuration)
        adjusted == JsDiv(JsSub(timeRatio, Num(FP)), BPR_ALPHA)
        raw == IF JsGt(timeRatio, Num(FP))
               THEN JsRoot(JsMax0(adjusted), BPR_BETA)
               ELSE Num(0)
    IN  IF ~IsFinite(raw) THEN NULL
        ELSE IF JsLt(raw, Num(0)) THEN Num(0)
        ELSE raw

derivedFlowVphOf(volumeCapacityRatio, capacityVph) ==
    IF IsNull(volumeCapacityRatio) THEN NULL
    ELSE LET flow == JsMul(volumeCapacityRatio, capacityVph)
         IN  IF ~IsFinite(flow) THEN NULL ELSE flow

\* variant: the branch for a ratio above 1.2 is missing
flowConfidenceOf_NoOverCapacityBranch(volumeCapacityRatio, derivedFlowVph) ==
    IF IsNull(volumeCapacityRatio) \/ IsNull(derivedFlowVph) THEN "low"
    ELSE IF JsLe(volumeCapacityRatio, HighConfidenceMax) THEN "high"
    ELSE "medium"

\* the confidence label of a ratio and a flow
flowConfidenceOf(volumeCapacityRatio, derivedFlowVph) ==
    IF IsNull(volumeCapacityRatio) \/ IsNull(derivedFlowVph) THEN "low"
    ELSE IF JsLe(volumeCapacityRatio, HighConfidenceMax) THEN "high"
    ELSE IF JsGt(volumeCapacityRatio, MediumConfidenceMax) THEN "low"
    ELSE "medium"

\* the record returned for a segment whose resolved record is meta
metricsFor(meta, sample) ==
    LET lengthMeters == meta.lengthMeters
        capacityVph == meta.capacityVph
        duration == Coalesce(sample.durationSeconds, NULL)
        staticDuration == Coalesce(sample.staticDurationSeconds, NULL)
        freeFlowSpeedKph == freeFlowSpeedKphOf(lengthMeters, staticDuration)
    IN  IF cannotDeriveFlow(duration, staticDuration, capacityVph)
        THEN [capacityVph |-> capacityVph,
              lengthMeters |-> lengthMeters,
              freeFlowSpeedKph |-> freeFlowSpeedKph,
              volumeCapacityRatio |-> NULL,
              derivedFlowVph |-> NULL,
              flowConfidence |-> "low"]
        ELSE LET volumeCapacityRatio == bprVolumeCapacityRatio(duration, staticDuration)
                 derivedFlowVph == derivedFlowVphOf(volumeCapacityRatio, capacityVph)
             IN  [capacityVph |-> capacityVph,
                  lengthMeters |-> lengthMeters,
                  freeFlowSpeedKph |-> freeFlowSpeedKph,
                  volumeCapacityRatio |-> volumeCapacityRatio,
                  derivedFlowVph |-> derivedFlowVph,
                  flowConfidence |-> flowConfidenceOf(volumeCapacityRatio, derivedFlowVph)]

\* the flowEstimationModel enrichSamples writes beside the metrics
reportedFlowModel == [alpha |-> BPR_ALPHA, beta |-> BPR_BETA, source |-> "BPR"]

\* variant: a method is called on durationSeconds, which throws when it is null
deriveFlowMetricsThrows_OnNullDuration(sample) ==
    ~sample.isObject \/ IsNull(sample.durationSeconds)

\* reading sample.segmentId throws a TypeError when the argument is null
deriveFlowMetricsThrows(sample) == ~sample.isObject

\* variant: a memo keyed on the segment id alone, so a second call for the
\* same segment returns the record of the first
deriveFlowMetrics_MemoBySegment(sample) ==
    IF lastOutcome = "returned" /\ lastSample.segmentId = sample.segmentId
    THEN lastResult
    ELSE IF ~HasMeta(sample.segmentId) THEN UnknownSegmentMetrics
    ELSE metricsFor(segmentMetadata[sample.segmentId], sample)

deriveFlowMetrics(sample) ==
    IF ~HasMeta(sample.segmentId) THEN UnknownSegmentMetrics
    ELSE metricsFor(segmentMetadata[sample.segmentId], sample)

(***************************************************************************)
(* Inputs.                                                                 *)
(***************************************************************************)
UnknownSegmentId == "via-non-configurata"

SampleSegmentIds == {s.id : s \in SegmentPool} \cup {UnknownSegmentId}

DurationValues ==
    {NULL, Whole(0 - 5), Whole(0), Whole(45), Whole(60), Whole(61), Whole(66),
     Whole(90), INFINITY}

StaticDurationValues ==
    {NULL, Whole(0 - 5), Whole(0), MIN_VALUE, Whole(60), INFINITY}

Sample(id, d, s) ==
    [isObject |-> TRUE, segmentId |-> id, durationSeconds |-> d,
     staticDurationSeconds |-> s]

\* the value JSON.parse gives for the line "null"
NullSample ==
    [isObject |-> FALSE, segmentId |-> "", durationSeconds |-> NULL,
     staticDurationSeconds |-> NULL]

Samples ==
    {Sample(id, d, s) : id \in SampleSegmentIds, d \in DurationValues,
                        s \in StaticDurationValues} \cup {NullSample}

\* placeholder while no call has returned
NoResult == [UnknownSegmentMetrics EXCEPT !.flowConfidence = ""]

(***************************************************************************)
(* Values of the variables a specification does not use.                   *)
(***************************************************************************)
\* the argument `undefined` of computeSegmentLengthMeters
MissingEndpoints == [present |-> FALSE, points |-> <<>>]

NotCalled == [outcome |-> "none", value |-> NULL]

\* A timestamp string.  kind "iso" is the UTC form toISOString writes
\* (2024-03-DDTHH:MM:SS.mmmZ), kind "local" the form of a datetime-local
\* input (2024-03-DDTHH:MM, local time), kind "empty" is '', kind "bad" a
\* string Date cannot parse.  day counts the days of the month from 1.
TimeString(kind, day, hour, minute, second, ms) ==
    [kind |-> kind, day |-> day, hour |-> hour, minute |-> minute,
     second |-> second, ms |-> ms]

\* the value '' of a datetime-local input
EmptyInput == TimeString("empty", 0, 0, 0, 0, 0)

LengthIdle ==
    /\ endpointsArg = MissingEndpoints
    /\ lengthOutcome = NotCalled

\* the App as constructed: useState initial values, nothing loaded
AppIdle ==
    /\ timezoneOffset = 0
    /\ samples = <<>>
    /\ timePreset = "LAST_48_HOURS"
    /\ customStart = EmptyInput
    /\ customEnd = EmptyInput
    /\ snapshotKey = TimeString("null", 0, 0, 0, 0, 0)
    /\ isPlaybackActive = FALSE
    /\ effectsPending = FALSE

\* no data file yet and no enrichment run
FileIdle ==
    /\ dataFile = <<>>
    /\ backupFile = <<>>
    /\ enrichPc = "idle"
    /\ enrichRaw = <<>>
    /\ enrichRuns = 0
    /\ appended = <<>>
    /\ clock = 0

\* the response of a server that has not answered yet
NoResponse == [request |-> "none", status |-> 0, count |-> 0]

\* the poll control server as started, no poll running
PollIdle ==
    /\ pollSegments = <<>>
    /\ isPolling = FALSE
    /\ pollPc = "idle"
    /\ segmentIndex = 1
    /\ directionIndex = 1
    /\ collected = <<>>
    /\ requested = <<>>
    /\ lastResponse = NoResponse
    /\ pollsStarted = 0
    /\ collectionsRunning = 0

OpsIdle == FileIdle /\ PollIdle

(***************************************************************************)
(* The state machine of the flow enrichment.                               *)
(***************************************************************************)
SegmentIds(segments) == {segments[i].id : i \in 1..Len(segments)}

\* the enrichment module as loaded
FlowIdle ==
    /\ streetSegments = ShippedSegments
    /\ segmentMetadata = ReduceSegments(ShippedSegments, 1, EmptyMap)
    /\ configDirty = FALSE
    /\ droppedByReload = {}
    /\ lastSample = NullSample
    /\ lastOutcome = "none"
    /\ lastResult = NoResult

Init ==
    /\ FlowIdle
    /\ LengthIdle
    /\ AppIdle
    /\ OpsIdle

ClearLastCall ==
    /\ lastSample' = NullSample
    /\ lastOutcome' = "none"
    /\ lastResult' = NoResult

\* streetSegments.push(segment)
PushSegment(segment) ==
    /\ Len(streetSegments) < MaxSegments
    /\ segment.id \notin SegmentIds(streetSegments)
    /\ streetSegments' = Append(streetSegments, segment)
    /\ configDirty' = TRUE
    /\ droppedByReload' = {}
    /\ ClearLastCall
    /\ UNCHANGED <<segmentMetadata, lengthVars, appVars, opsVars>>

\* index of the first entry with this id (findIndex), 0 when there is none
FindIndex(segments, id) ==
    IF id \in SegmentIds(segments)
    THEN CHOOSE i \in 1..Len(segments) :
            /\ segments[i].id = id
            /\ \A j \in 1..(i - 1) : segments[j].id # id
    ELSE 0

RemoveAt(segments, i) ==
    [j \in 1..(Len(segments) - 1) |-> IF j < i THEN segments[j] ELSE segments[j + 1]]

\* index = findIndex(id); if (index >= 0) streetSegments.splice(index, 1)
SpliceSegment(id) ==
    /\ FindIndex(streetSegments, id) > 0
    /\ streetSegments' = RemoveAt(streetSegments, FindIndex(streetSegments, id))
    /\ configDirty' = TRUE
    /\ droppedByReload' = {}
    /\ ClearLastCall
    /\ UNCHANGED <<segmentMetadata, lengthVars, appVars, opsVars>>

\* rebuild the mapping from the current array, replacing the old one
refreshSegmentMetadata ==
    /\ segmentMetadata' = buildSegmentMetadata(streetSegments)
    /\ configDirty' = FALSE
    /\ droppedByReload' = (DOMAIN segmentMetadata) \ SegmentIds(streetSegments)
    /\ ClearLastCall
    /\ UNCHANGED <<streetSegments, lengthVars, appVars, opsVars>>

\* one call deriveFlowMetrics(sample)
DeriveFlowMetricsCall(sample) ==
    /\ lastSample' = sample
    /\ IF deriveFlowMetricsThrows(sample)
       THEN lastOutcome' = "threw" /\ lastResult' = NoResult
       ELSE lastOutcome' = "returned" /\ lastResult' = deriveFlowMetrics(sample)
    /\ UNCHANGED <<streetSegments, segmentMetadata, configDirty, droppedByReload>>
    /\ UNCHANGED <<lengthVars, appVars, opsVars>>

Next ==
    \/ \E segment \in RuntimeSegments : PushSegment(segment)
    \/ \E segment \in RuntimeSegments : SpliceSegment(segment.id)
    \/ refreshSegmentMetadata
    \/ \E sample \in Samples : DeriveFlowMetricsCall(sample)

Spec == Init /\ [][Next]_vars

(***************************************************************************)
(* computeSegmentLengthMeters applied to a coordinate sequence.            *)
(***************************************************************************)
\* longest coordinate sequence explored
MaxPoints == 4

\* three corners of the configured area, not on one line
PointPool ==
    {Point(4551781, 932296), Point(4551800, 932715), Point(4552004, 931954)}

\* every sequence over S of length 0..n
SeqsUpTo(S, n) == UNION {[1..k -> S] : k \in 0..n}

EndpointsInputs ==
    {MissingEndpoints} \cup
    {[present |-> TRUE, points |-> q] : q \in SeqsUpTo(PointPool, MaxPoints)}

\* the function on an argument that may be undefined: !endpoints comes
\* first and short-circuits the length test
computeSegmentLengthMetersOf(arg) ==
    IF ~arg.present THEN NULL ELSE computeSegmentLengthMeters(arg.points)

LengthInit ==
    /\ endpointsArg \in EndpointsInputs
    /\ lengthOutcome = NotCalled
    /\ FlowIdle
    /\ AppIdle
    /\ OpsIdle

\* one call computeSegmentLengthMeters(endpointsArg)
ComputeSegmentLengthCall ==
    /\ lengthOutcome = NotCalled
    /\ lengthOutcome' =
          [outcome |-> "returned", value |-> computeSegmentLengthMetersOf(endpointsArg)]
    /\ UNCHANGED <<endpointsArg, flowVars, appVars, opsVars>>

LengthNext == ComputeSegmentLengthCall

LengthSpec == LengthInit /\ [][LengthNext]_vars

(***************************************************************************)
(* Dates of the dashboard (frontend/src/App.tsx).  A Date is its time      *)
(* value in milliseconds, counted from 2024-03-01T00:00:00.000Z, or an     *)
(* Invalid Date (time value NaN), or null where the code holds null.       *)
(***************************************************************************)
MsPerSecond == 1000
MsPerMinute == 60 * 1000
MsPerHour == 60 * 60 * 1000
MsPerDay == 24 * 60 * 60 * 1000

DateOf(ms) == [t |-> "date", ms |-> ms]
InvalidDate == [t |-> "invalid", ms |-> 0]
NullDate == [t |-> "null", ms |-> 0]

\* a string that is not a date
BadInput == TimeString("bad", 0, 0, 0, 0, 0)

\* the value null where a string is expected
NullString == TimeString("null", 0, 0, 0, 0, 0)

\* truthiness of a string-or-null
NonEmpty(value) == value.kind \notin {"empty", "null"}

\* the time the fields of a string denote, read as UTC
FieldsMs(value) ==
    ((value.day - 1) * MsPerDay) + (value.hour * MsPerHour)
    + (value.minute * MsPerMinute) + (value.second * MsPerSecond) + value.ms

\* new Date(value): a string with Z is UTC, a datetime-local string is
\* local time, anything else gives an Invalid Date
DateParse(value) ==
    CASE value.kind = "iso" -> DateOf(FieldsMs(value))
      [] value.kind = "local" -> DateOf(FieldsMs(value) - (timezoneOffset * MsPerMinute))
      [] OTHER -> InvalidDate

\* Number.isNaN(date.getTime())
IsInvalid(date) == date.t = "invalid"

\* the fields of a time value
FieldsOf(kind, ms) ==
    TimeString(kind,
               (ms \div MsPerDay) + 1,
               (ms % MsPerDay) \div MsPerHour,
               (ms % MsPerHour) \div MsPerMinute,
               (ms % MsPerMinute) \div MsPerSecond,
               ms % MsPerSecond)

\* date.toISOString()
toISOString(date) == FieldsOf("iso", date.ms)

\* the local time value of a date
LocalMs(date) == date.ms + (timezoneOffset * MsPerMinute)

\* date.getMinutes(): the minute of the local time
getMinutes(date) == (LocalMs(date) % MsPerHour) \div MsPerMinute

\* date.setMinutes(minutes, 0, 0): the local minute set, seconds and
\* milliseconds zeroed
setMinutes(date, minutes) ==
    DateOf(LocalMs(date) - (LocalMs(date) % MsPerHour) + (minutes * MsPerMinute)
           - (timezoneOffset * MsPerMinute))

\* formatDatetimeLocalInput(date): local year-month-day T hours:minutes
formatDatetimeLocalInput(date) ==
    IF date.t # "date" THEN EmptyInput
    ELSE LET local == FieldsOf("local", LocalMs(date))
         IN  [local EXCEPT !.second = 0, !.ms = 0]

(***************************************************************************)
(* Snapshot bucketing (frontend/src/App.tsx).                              *)
(***************************************************************************)
SNAPSHOT_WINDOW_MINUTES == 5

\* variant: the minute rounded to the nearest multiple of 5, not floored
normaliseTimestampToWindow_Rounds(value) ==
    LET date == DateParse(value)
    IN  IF IsInvalid(date) THEN value
        ELSE LET minutes == getMinutes(date)
                 bucketMinutes ==
                     ((minutes + 2) \div SNAPSHOT_WINDOW_MINUTES) * SNAPSHOT_WINDOW_MINUTES
             IN  toISOString(setMinutes(date, bucketMinutes))

normaliseTimestampToWindow(value) ==
    LET date == DateParse(value)
    IN  IF IsInvalid(date) THEN value
        ELSE LET minutes == getMinutes(date)
                 bucketMinutes ==
                     (minutes \div SNAPSHOT_WINDOW_MINUTES) * SNAPSHOT_WINDOW_MINUTES
             IN  toISOString(setMinutes(date, bucketMinutes))

\* the characters of a string that decide a comparison, most significant first
Characters(value) == <<value.day, value.hour, value.minute, value.second, value.ms>>

RECURSIVE CompareFrom(_, _, _)
CompareFrom(x, y, i) ==
    IF i > Len(x) THEN 0
    ELSE IF x[i] < y[i] THEN 0 - 1
    ELSE IF x[i] > y[i] THEN 1
    ELSE CompareFrom(x, y, i + 1)

\* a.localeCompare(b): character by character; digits sort before letters
localeCompare(a, b) ==
    IF a.kind = b.kind THEN CompareFrom(Characters(a), Characters(b), 1)
    ELSE IF a.kind = "iso" THEN 0 - 1
    ELSE 1

\* position of the entry with this key in the Map, 0 when bucket.get(key)
\* is undefined
EntryIndex(bucket, key) ==
    IF \E i \in 1..Len(bucket) : bucket[i].key = key
    THEN CHOOSE i \in 1..Len(bucket) : bucket[i].key = key
    ELSE 0

\* the loop over the samples: push to the collection of the key, or set a
\* new entry (a Map keeps insertion order)
RECURSIVE GroupInto(_, _, _)
GroupInto(list, i, bucket) ==
    IF i > Len(list) THEN bucket
    ELSE LET sample == list[i]
             key == normaliseTimestampToWindow(sample.requestedAt)
             at == EntryIndex(bucket, key)
         IN  GroupInto(list, i + 1,
                       IF at > 0
                       THEN [bucket EXCEPT ![at].samples = Append(@, sample)]
                       ELSE Append(bucket, [key |-> key, samples |-> <<sample>>]))

\* one entry put into an ascending list, after the entries that do not
\* compare above it
InsertEntry(sorted, entry) ==
    LET below == {i \in 1..Len(sorted) : localeCompare(sorted[i].key, entry.key) <= 0}
        n == Cardinality(below)
    IN  SubSeq(sorted, 1, n) \o <<entry>> \o SubSeq(sorted, n + 1, Len(sorted))

\* variant: the entries kept in insertion order
RECURSIVE SortEntries_Unsorted(_, _, _)
SortEntries_Unsorted(entries, i, sorted) ==
    IF i > Len(entries) THEN sorted
    ELSE SortEntries_Unsorted(entries, i + 1, Append(sorted, entries[i]))

\* entries.sort((a, b) => a[0].localeCompare(b[0]))
RECURSIVE SortEntries(_, _, _)
SortEntries(entries, i, sorted) ==
    IF i > Len(entries) THEN sorted
    ELSE SortEntries(entries, i + 1, InsertEntry(sorted, entries[i]))

\* the memo snapshotGroupsAsc as a function of the samples
SnapshotGroupsOf(list) == SortEntries(GroupInto(list, 1, <<>>), 1, <<>>)

snapshotGroupsAsc == SnapshotGroupsOf(samples)

earliestGroupKey ==
    IF Len(snapshotGroupsAsc) > 0 THEN snapshotGroupsAsc[1].key ELSE NullString

latestGroupKey ==
    IF Len(snapshotGroupsAsc) > 0
    THEN snapshotGroupsAsc[Len(snapshotGroupsAsc)].key
    ELSE NullString

(***************************************************************************)
(* Range selection (frontend/src/App.tsx).                                 *)
(***************************************************************************)
TimeWindowPresets ==
    {"LAST_24_HOURS", "LAST_48_HOURS", "LAST_7_DAYS", "FULL_RANGE", "CUSTOM"}

\* a < b on Dates: false when either is an Invalid Date
DateLt(a, b) == a.t = "date" /\ b.t = "date" /\ a.ms < b.ms

\* truthiness of a Date-or-null
IsDate(date) == date.t # "null"

\* new Date(date.getTime() - ms)
DateMinus(date, ms) == IF date.t = "date" THEN DateOf(date.ms - ms) ELSE InvalidDate

Range(start, end) == [start |-> start, end |-> end]

\* key ? new Date(key) : null
DateOfKey(key) == IF NonEmpty(key) THEN DateParse(key) ELSE NullDate

\* value ? new Date(value) : null, kept only when it is a valid date
CustomCandidate(value) ==
    LET candidate == IF NonEmpty(value) THEN DateParse(value) ELSE NullDate
    IN  IF IsDate(candidate) /\ ~IsInvalid(candidate) THEN candidate ELSE NullDate

\* variant: the 24-hour preset reaches back 48 hours
relativeWindowMs_DayIsTwoDays(preset) ==
    CASE preset = "LAST_24_HOURS" -> 48 * MsPerHour
      [] preset = "LAST_48_HOURS" -> 48 * MsPerHour
      [] preset = "LAST_7_DAYS" -> 7 * MsPerDay

\* the span a relative preset subtracts from the latest key
relativeWindowMs(preset) ==
    CASE preset = "LAST_24_HOURS" -> 24 * MsPerHour
      [] preset = "LAST_48_HOURS" -> 48 * MsPerHour
      [] preset = "LAST_7_DAYS" -> 7 * MsPerDay

\* the switch on timePreset
selectedRange(preset, earliest, latest, startValue, endValue) ==
    CASE preset \in {"LAST_24_HOURS", "LAST_48_HOURS", "LAST_7_DAYS"} ->
            IF IsDate(latest)
            THEN Range(DateMinus(latest, relativeWindowMs(preset)), latest)
            ELSE Range(NullDate, NullDate)
      [] preset = "FULL_RANGE" -> Range(earliest, latest)
      [] preset = "CUSTOM" -> Range(CustomCandidate(startValue), CustomCandidate(endValue))
      [] OTHER -> Range(NullDate, NullDate)

\* variant: when either bound is missing both are replaced
defaultedRange_BothOrNone(range, earliest, latest) ==
    IF (~IsDate(range.start) \/ ~IsDate(range.end)) /\ IsDate(earliest) /\ IsDate(latest)
    THEN Range(earliest, latest)
    ELSE range

\* if (!start && earliest) start = earliest; if (!end && latest) end = latest
defaultedRange(range, earliest, latest) ==
    Range(IF ~IsDate(range.start) /\ IsDate(earliest) THEN earliest ELSE range.start,
          IF ~IsDate(range.end) /\ IsDate(latest) THEN latest ELSE range.end)

\* start raised to earliest, end lowered to latest
clampedRange(range, earliest, latest) ==
    Range(IF IsDate(range.start) /\ IsDate(earliest) /\ DateLt(range.start, earliest)
          THEN earliest ELSE range.start,
          IF IsDate(range.end) /\ IsDate(latest) /\ DateLt(latest, range.end)
          THEN latest ELSE range.end)

\* variant: an end before the start is left as it is
uninvertedRange_LeavesInverted(range) == range

\* if (start && end && end < start) end = new Date(start.getTime())
uninvertedRange(range) ==
    IF IsDate(range.start) /\ IsDate(range.end) /\ DateLt(range.end, range.start)
    THEN Range(range.start, range.start)
    ELSE range

\* the range before its end is compared with its start
rangeBeforeInversionStep(groups, preset, startValue, endValue) ==
    LET earliest == DateOfKey(IF Len(groups) > 0 THEN groups[1].key ELSE NullString)
        latest == DateOfKey(IF Len(groups) > 0 THEN groups[Len(groups)].key ELSE NullString)
    IN  clampedRange(
            defaultedRange(selectedRange(preset, earliest, latest, startValue, endValue),
                           earliest, latest),
            earliest, latest)

\* the memo activeRange
activeRange ==
    IF Len(snapshotGroupsAsc) = 0 THEN Range(NullDate, NullDate)
    ELSE uninvertedRange(
             rangeBeforeInversionStep(snapshotGroupsAsc, timePreset, customStart, customEnd))

\* activeRange.start ? activeRange.start.getTime() : null, compared with
\* the time of a key: a bound that is null or NaN excludes nothing
BeforeBound(ms, bound) == bound.t = "date" /\ ms < bound.ms

AfterBound(ms, bound) == bound.t = "date" /\ ms > bound.ms

\* the filter callback of visibleSnapshotGroupsAsc
IsVisibleIn(group, range) ==
    LET date == DateParse(group.key)
    IN  IF IsInvalid(date) THEN FALSE
        ELSE IF BeforeBound(date.ms, range.start) THEN FALSE
        ELSE IF AfterBound(date.ms, range.end) THEN FALSE
        ELSE TRUE

\* variant: a bucket that starts exactly at the end of the range is left out
visibleSnapshotGroupsAsc_EndExcluded ==
    LET range == activeRange
    IN  SelectSeq(snapshotGroupsAsc,
                  LAMBDA group : IsVisibleIn(group, range)
                                 /\ ~(range.end.t = "date"
                                      /\ DateParse(group.key).ms = range.end.ms))

\* the memo visibleSnapshotGroupsAsc
visibleSnapshotGroupsAsc ==
    LET range == activeRange
    IN  SelectSeq(snapshotGroupsAsc, LAMBDA group : IsVisibleIn(group, range))

\* [...list].reverse()
Reverse(list) == [i \in 1..Len(list) |-> list[Len(list) + 1 - i]]

visibleSnapshotGroupsDesc == Reverse(visibleSnapshotGroupsAsc)

\* groups.some((group) => group.key === key)
SomeKey(groups, key) == \E i \in 1..Len(groups) : groups[i].key = key

\* groups.findIndex((group) => group.key === key), counted from 0
FindKeyIndex(groups, key) ==
    IF SomeKey(groups, key)
    THEN (CHOOSE i \in 1..Len(groups) :
              /\ groups[i].key = key
              /\ \A j \in 1..(i - 1) : groups[j].key # key) - 1
    ELSE 0 - 1

\* the memo samplesForSnapshot: the group is looked up in the whole timeline
samplesForSnapshot ==
    IF ~NonEmpty(snapshotKey) THEN <<>>
    ELSE IF SomeKey(snapshotGroupsAsc, snapshotKey)
    THEN snapshotGroupsAsc[FindKeyIndex(snapshotGroupsAsc, snapshotKey) + 1].samples
    ELSE <<>>

(***************************************************************************)
(* The dashboard as a state machine: each handler commits a render, and    *)
(* the effects of that render run before the next event is handled.        *)
(***************************************************************************)
\* longest dataset explored
MaxSamples == 3

\* capture times of the samples: three around 10:00 and 10:05 on 12 March,
\* one nine days earlier
TimestampPool ==
    {TimeString("iso", 12, 10, 2, 13, 250),
     TimeString("iso", 12, 10, 4, 59, 999),
     TimeString("iso", 12, 10, 5, 0, 0),
     TimeString("iso", 3, 8, 0, 0, 0)}

SamplePool == {[requestedAt |-> t] : t \in TimestampPool}

\* Europe/Rome in winter (UTC+1) and Asia/Kathmandu (UTC+5:45), in minutes
TimezoneOffsets == {60, 345}

\* instants a user types into a custom input: before every sample, between
\* the last two buckets, after every sample
TypedInstants ==
    {FieldsMs(TimeString("iso", 2, 0, 0, 0, 0)),
     FieldsMs(TimeString("iso", 12, 10, 3, 0, 0)),
     FieldsMs(TimeString("iso", 13, 12, 0, 0, 0))}

\* event.target.value of a custom input
TypedInputs ==
    {EmptyInput, BadInput} \cup {formatDatetimeLocalInput(DateOf(ms)) : ms \in TypedInstants}

AppInit ==
    /\ timezoneOffset \in TimezoneOffsets
    /\ samples = <<>>
    /\ timePreset = "LAST_48_HOURS"
    /\ customStart = EmptyInput
    /\ customEnd = EmptyInput
    /\ snapshotKey = NullString
    /\ isPlaybackActive = FALSE
    /\ effectsPending = FALSE
    /\ FlowIdle
    /\ LengthIdle
    /\ OpsIdle

\* if (!customStart && earliestGroupKey) setCustomStart(format(earliest))
defaultedCustomStart ==
    IF ~NonEmpty(customStart) /\ NonEmpty(earliestGroupKey)
    THEN formatDatetimeLocalInput(DateParse(earliestGroupKey))
    ELSE customStart

\* if (!customEnd && latestGroupKey) setCustomEnd(format(latest))
defaultedCustomEnd ==
    IF ~NonEmpty(customEnd) /\ NonEmpty(latestGroupKey)
    THEN formatDatetimeLocalInput(DateParse(latestGroupKey))
    ELSE customEnd

\* the condition under which the correction effect calls setCustomEnd
customEndIsBeforeStart ==
    /\ timePreset = "CUSTOM"
    /\ NonEmpty(customStart)
    /\ NonEmpty(customEnd)
    /\ ~IsInvalid(DateParse(customStart))
    /\ ~IsInvalid(DateParse(customEnd))
    /\ DateLt(DateParse(customEnd), DateParse(customStart))

\* loadSamples resolved: setSamples(parsed).  The data file is appended
\* to, so a load returns the lines seen before followed by new ones.  While
\* the request was in flight loadState was 'loading', and the effect on
\* loadState stopped a running playback.
loadSamples(more) ==
    /\ ~effectsPending
    /\ Len(more) > 0
    /\ Len(samples) + Len(more) <= MaxSamples
    /\ samples' = samples \o more
    /\ isPlaybackActive' = FALSE
    /\ effectsPending' = TRUE
    /\ UNCHANGED <<timezoneOffset, timePreset, customStart, customEnd, snapshotKey>>
    /\ UNCHANGED <<flowVars, lengthVars, opsVars>>

handleTimePresetChange(value) ==
    /\ ~effectsPending
    /\ timePreset' = value
    /\ customStart' = IF value = "CUSTOM" THEN defaultedCustomStart ELSE customStart
    /\ customEnd' = IF value = "CUSTOM" THEN defaultedCustomEnd ELSE customEnd
    /\ effectsPending' = TRUE
    /\ UNCHANGED <<timezoneOffset, samples, snapshotKey, isPlaybackActive>>
    /\ UNCHANGED <<flowVars, lengthVars, opsVars>>

\* the custom inputs are rendered in custom mode and enabled when there is
\* at least one group
CustomInputsEnabled ==
    /\ ~effectsPending
    /\ timePreset = "CUSTOM"
    /\ Len(snapshotGroupsAsc) > 0

handleCustomStartChange(value) ==
    /\ CustomInputsEnabled
    /\ customStart' = value
    /\ effectsPending' = TRUE
    /\ UNCHANGED <<timezoneOffset, samples, timePreset, customEnd>>
    /\ UNCHANGED <<snapshotKey, isPlaybackActive, flowVars, lengthVars, opsVars>>

handleCustomEndChange(value) ==
    /\ CustomInputsEnabled
    /\ customEnd' = value
    /\ effectsPending' = TRUE
    /\ UNCHANGED <<timezoneOffset, samples, timePreset, customStart>>
    /\ UNCHANGED <<snapshotKey, isPlaybackActive, flowVars, lengthVars, opsVars>>

\* the options of the snapshot drop-down: the keys of the visible buckets
SnapshotOptions ==
    IF effectsPending THEN {}
    ELSE LET visible == visibleSnapshotGroupsDesc
         IN  {visible[i].key : i \in 1..Len(visible)}

\* if (!value) return; setSnapshotKey(value)
handleSnapshotChange(value) ==
    /\ ~effectsPending
    /\ NonEmpty(value)
    /\ snapshotKey' = value
    /\ effectsPending' = TRUE
    /\ UNCHANGED <<timezoneOffset, samples, timePreset, customStart, customEnd>>
    /\ UNCHANGED <<isPlaybackActive, flowVars, lengthVars, opsVars>>

\* the positions of the slider: 0..sliderMax, when it is enabled
SliderPositions ==
    IF effectsPending THEN {}
    ELSE LET visible == visibleSnapshotGroupsAsc
         IN  IF Len(visible) = 0 THEN {} ELSE 0..(Len(visible) - 1)

\* nextGroup = visibleSnapshotGroupsAsc[index]; if (nextGroup) setSnapshotKey(key)
handleSliderChange(index) ==
    /\ ~effectsPending
    /\ LET visible == visibleSnapshotGroupsAsc
       IN  /\ index + 1 \in 1..Len(visible)
           /\ snapshotKey' = visible[index + 1].key
    /\ effectsPending' = TRUE
    /\ UNCHANGED <<timezoneOffset, samples, timePreset, customStart, customEnd>>
    /\ UNCHANGED <<isPlaybackActive, flowVars, lengthVars, opsVars>>

\* returns at once when nothing is visible, else flips isPlaybackActive
handleTogglePlayback ==
    /\ ~effectsPending
    /\ Len(visibleSnapshotGroupsAsc) > 0
    /\ isPlaybackActive' = ~isPlaybackActive
    /\ effectsPending' = TRUE
    /\ UNCHANGED <<timezoneOffset, samples, timePreset, customStart, customEnd>>
    /\ UNCHANGED <<snapshotKey, flowVars, lengthVars, opsVars>>

\* the updater the playback interval passes to setSnapshotKey
nextPlaybackKey(visible, currentKey) ==
    LET currentIndex ==
            IF NonEmpty(currentKey) THEN FindKeyIndex(visible, currentKey) ELSE 0 - 1
        nextIndex == IF currentIndex >= 0 THEN (currentIndex + 1) % Len(visible) ELSE 0
    IN  visible[nextIndex + 1].key

\* one tick of the playback interval, set up by the effects of the render
PlaybackTick ==
    /\ ~effectsPending
    /\ isPlaybackActive
    /\ LET visible == visibleSnapshotGroupsAsc
       IN  /\ Len(visible) > 0
           /\ snapshotKey' = nextPlaybackKey(visible, snapshotKey)
    /\ effectsPending' = TRUE
    /\ UNCHANGED <<timezoneOffset, samples, timePreset, customStart, customEnd>>
    /\ UNCHANGED <<isPlaybackActive, flowVars, lengthVars, opsVars>>

\* variant: the selection effect replaces a key that is not visible but
\* leaves "no key" alone
selectedSnapshotKey_KeepsNoKey(visible, key, playing) ==
    IF Len(visible) = 0 THEN NullString
    ELSE IF ~NonEmpty(key) THEN key
    ELSE IF SomeKey(visible, key) THEN key
    ELSE visible[Len(visible)].key

\* the key after the selection effect and the playback effect of one render:
\* null when nothing is visible; the first visible key when playback runs
\* without a key (the later setSnapshotKey of the two wins); the most
\* recent visible key when the current one is not visible; else unchanged
selectedSnapshotKey(visible, key, playing) ==
    IF Len(visible) = 0 THEN NullString
    ELSE IF playing /\ ~NonEmpty(key) THEN visible[1].key
    ELSE IF NonEmpty(key) /\ SomeKey(visible, key) THEN key
    ELSE visible[Len(visible)].key

\* the effects of the committed render, each reading the values of that
\* render: the custom defaults, the correction of an end before the start,
\* the selection of the snapshot, the playback.  Their updates are applied
\* together; a changed state is rendered and its effects run in turn.
RunEffects ==
    /\ effectsPending
    /\ customStart' = IF timePreset = "CUSTOM" THEN defaultedCustomStart ELSE customStart
    /\ customEnd' =
          IF timePreset = "CUSTOM" /\ defaultedCustomEnd # customEnd THEN defaultedCustomEnd
          ELSE IF customEndIsBeforeStart THEN customStart
          ELSE customEnd
    /\ LET visible == visibleSnapshotGroupsAsc
       IN  /\ snapshotKey' = selectedSnapshotKey(visible, snapshotKey, isPlaybackActive)
           /\ isPlaybackActive' = (isPlaybackActive /\ Len(visible) > 0)
    /\ effectsPending' =
          \/ customStart' # customStart
          \/ customEnd' # customEnd
          \/ snapshotKey' # snapshotKey
          \/ isPlaybackActive' # isPlaybackActive
    /\ UNCHANGED <<timezoneOffset, samples, timePreset>>
    /\ UNCHANGED <<flowVars, lengthVars, opsVars>>

\* The bucketing applied to every dataset, in every order of its lines.
BucketNext ==
    \/ \E more \in SeqsUpTo(SamplePool, MaxSamples - Len(samples)) : loadSamples(more)
    \/ RunEffects

BucketSpec == AppInit /\ [][BucketNext]_vars

\* the lines are in capture order
Chronological(list) ==
    \A i \in 1..(Len(list) - 1) :
        FieldsMs(list[i].requestedAt) <= FieldsMs(list[i + 1].requestedAt)

\* what a reload can add to the dataset: the poller stamps each sample with
\* the current time and appends it, so the file is in capture order
AppendedLines ==
    IF effectsPending THEN {}
    ELSE {more \in SeqsUpTo(SamplePool, MaxSamples - Len(samples)) :
             Chronological(samples \o more)}

\* The range controls of the dashboard in use, over the poller's dataset.
AppNext ==
    \/ \E more \in AppendedLines : loadSamples(more)
    \/ \E value \in TimeWindowPresets : handleTimePresetChange(value)
    \/ \E value \in TypedInputs : handleCustomStartChange(value)
    \/ \E value \in TypedInputs : handleCustomEndChange(value)
    \/ RunEffects

AppSpec == AppInit /\ [][AppNext]_vars

\* a line whose requestedAt is not a date
UnparseableSample == [requestedAt |-> BadInput]

\* the lines of a list whose requestedAt is a date
ParseableLines(list) ==
    SelectSeq(list, LAMBDA sample : ~IsInvalid(DateParse(sample.requestedAt)))

\* lines of a file that was not written by the poller alone: one nine days
\* old, two in successive windows, one without a date
AnyLinePool ==
    {[requestedAt |-> TimeString("iso", 3, 8, 0, 0, 0)],
     [requestedAt |-> TimeString("iso", 12, 10, 4, 59, 999)],
     [requestedAt |-> TimeString("iso", 12, 10, 5, 0, 0)],
     UnparseableSample}

\* what a reload can add to such a file
AnyLines ==
    IF effectsPending THEN {}
    ELSE {more \in SeqsUpTo(AnyLinePool, MaxSamples - Len(samples)) :
             Chronological(ParseableLines(samples \o more))}

\* values typed into a custom input while a snapshot is selected: cleared,
\* between the last two buckets, after every sample
SnapshotTypedInputs ==
    {EmptyInput,
     formatDatetimeLocalInput(DateOf(FieldsMs(TimeString("iso", 12, 10, 3, 0, 0)))),
     formatDatetimeLocalInput(DateOf(FieldsMs(TimeString("iso", 13, 12, 0, 0, 0))))}

\* Every control of the dashboard in use, over any dataset.
SnapshotNext ==
    \/ \E more \in AnyLines : loadSamples(more)
    \/ \E value \in TimeWindowPresets : handleTimePresetChange(value)
    \/ \E value \in SnapshotTypedInputs : handleCustomStartChange(value)
    \/ \E value \in SnapshotTypedInputs : handleCustomEndChange(value)
    \/ \E value \in SnapshotOptions : handleSnapshotChange(value)
    \/ \E index \in SliderPositions : handleSliderChange(index)
    \/ handleTogglePlayback
    \/ PlaybackTick
    \/ RunEffects

SnapshotSpec == AppInit /\ [][SnapshotNext]_vars

(***************************************************************************)
(* The data file (src/poller.js appendSamples, scripts/enrich_flows.js      *)
(* enrichSamples).  The file is the sequence of its newline-terminated      *)
(* lines; a line is the object it serialises, or blank.                     *)
(***************************************************************************)
\* most samples appended in all
MaxAppended == 3
\* most enrichSamples runs
MaxEnrichRuns == 2

\* a key the object does not have
Undefined == [t |-> "undefined", v |-> 0]

NoFlowEstimationModel == [defined |-> FALSE, alpha |-> NULL, beta |-> 0, source |-> ""]

\* the object fetchTravelTime returns, as far as the enrichment reads it
RawSample(id, direction, at, duration, staticDuration) ==
    [blank |-> FALSE, isObject |-> TRUE, segmentId |-> id, direction |-> direction,
     requestedAt |-> at, durationSeconds |-> duration,
     staticDurationSeconds |-> staticDuration,
     lengthMeters |-> Undefined, freeFlowSpeedKph |-> Undefined,
     capacityVph |-> Undefined, volumeCapacityRatio |-> Undefined,
     derivedFlowVph |-> Undefined, flowConfidence |-> "",
     flowEstimationModel |-> NoFlowEstimationModel]

\* an empty line
BlankLine == [RawSample("", "", 0, Undefined, Undefined) EXCEPT !.blank = TRUE]

\* JSON.stringify of a number: Infinity and NaN are written as null
JsonNumber(x) == IF x.t \in {"inf", "nan"} THEN NULL ELSE x

\* JSON.stringify(object), read back by JSON.parse: keys keep their place,
\* non-finite numbers come back as null, undefined keys stay absent
stringify(object) ==
    [object EXCEPT !.durationSeconds = JsonNumber(@),
                   !.staticDurationSeconds = JsonNumber(@),
                   !.lengthMeters = JsonNumber(@),
                   !.freeFlowSpeedKph = JsonNumber(@),
                   !.capacityVph = JsonNumber(@),
                   !.volumeCapacityRatio = JsonNumber(@),
                   !.derivedFlowVph = JsonNumber(@)]

\* lines.join("\n") + "\n" appended to the file
appendSamples(file, batch) ==
    file \o [i \in 1..Len(batch) |-> stringify(batch[i])]

\* raw.split(/\r?\n/).filter(Boolean)
NonBlankLines(raw) == SelectSeq(raw, LAMBDA line : ~line.blank)

\* variant: the output line is built from the metrics and the identifying
\* fields only, so direction is lost
enrichLine_DropsDirection(sample) ==
    LET metrics == deriveFlowMetrics(sample)
    IN  stringify([sample EXCEPT
            !.direction = "",
            !.lengthMeters = metrics.lengthMeters,
            !.freeFlowSpeedKph = metrics.freeFlowSpeedKph,
            !.capacityVph = metrics.capacityVph,
            !.volumeCapacityRatio = metrics.volumeCapacityRatio,
            !.derivedFlowVph = metrics.derivedFlowVph,
            !.flowConfidence = metrics.flowConfidence,
            !.flowEstimationModel =
                [defined |-> TRUE, alpha |-> BPR_ALPHA, beta |-> BPR_BETA,
                 source |-> "BPR"]])

\* the callback of lines.map: {...sample, the six metrics, flowEstimationModel}
enrichLine(sample) ==
    LET metrics == deriveFlowMetrics(sample)
    IN  stringify([sample EXCEPT
            !.lengthMeters = metrics.lengthMeters,
            !.freeFlowSpeedKph = metrics.freeFlowSpeedKph,
            !.capacityVph = metrics.capacityVph,
            !.volumeCapacityRatio = metrics.volumeCapacityRatio,
            !.derivedFlowVph = metrics.derivedFlowVph,
            !.flowConfidence = metrics.flowConfidence,
            !.flowEstimationModel =
                [defined |-> TRUE, alpha |-> BPR_ALPHA, beta |-> BPR_BETA,
                 source |-> "BPR"]])

enrichedLines(raw) ==
    LET lines == NonBlankLines(raw)
    IN  [i \in 1..Len(lines) |-> enrichLine(lines[i])]

\* enrichedLines.join('\n') + '\n': with no line at all, one empty line
enrichedFile(raw) ==
    IF Len(enrichedLines(raw)) = 0 THEN <<BlankLine>> ELSE enrichedLines(raw)

\* what a poll collects: a congested and a free-flowing trip on a segment
\* with metadata, a trip without static duration on one without, and a
\* trip on a segment that has left the configuration
RoutePool ==
    {[segmentId |-> "via-pontida", direction |-> "forward",
      durationSeconds |-> Whole(90), staticDurationSeconds |-> Whole(60)],
     [segmentId |-> "via-melghera", direction |-> "reverse",
      durationSeconds |-> Whole(45), staticDurationSeconds |-> NULL],
     [segmentId |-> UnknownSegmentId, direction |-> "forward",
      durationSeconds |-> Whole(60), staticDurationSeconds |-> Whole(60)]}

\* the samples of one poll, stamped with the time of their request
StampedBatch(routes, now) ==
    [i \in 1..Len(routes) |->
        RawSample(routes[i].segmentId, routes[i].direction, now + i,
                  routes[i].durationSeconds, routes[i].staticDurationSeconds)]

\* the file before the first poll: missing, or holding one empty line
InitialFiles == {<<>>, <<BlankLine>>}

FileInit ==
    /\ dataFile \in InitialFiles
    /\ backupFile = <<>>
    /\ enrichPc = "idle"
    /\ enrichRaw = <<>>
    /\ enrichRuns = 0
    /\ appended = <<>>
    /\ clock = 0
    /\ PollIdle
    /\ FlowIdle
    /\ LengthIdle
    /\ AppIdle

\* the end of a poll that collected these routes: one appendFile call
AppendSamplesCall(routes) ==
    /\ Len(routes) > 0
    /\ Len(appended) + Len(routes) <= MaxAppended
    /\ LET batch == StampedBatch(routes, clock)
       IN  /\ dataFile' = appendSamples(dataFile, batch)
           /\ appended' = appendSamples(appended, batch)
    /\ clock' = clock + Len(routes)
    /\ UNCHANGED <<backupFile, enrichPc, enrichRaw, enrichRuns>>
    /\ UNCHANGED <<pollVars, flowVars, lengthVars, appVars>>

\* raw = await fs.readFile(DATA_FILE); a missing file ends the run
EnrichRead ==
    /\ enrichPc = "idle"
    /\ enrichRuns < MaxEnrichRuns
    /\ Len(dataFile) > 0
    /\ enrichRaw' = dataFile
    /\ enrichPc' = "read"
    /\ enrichRuns' = enrichRuns + 1
    /\ UNCHANGED <<dataFile, backupFile, appended, clock>>
    /\ UNCHANGED <<pollVars, flowVars, lengthVars, appVars>>

\* await fs.writeFile(BACKUP_FILE, raw)
EnrichBackup ==
    /\ enrichPc = "read"
    /\ backupFile' = enrichRaw
    /\ enrichPc' = "backedUp"
    /\ UNCHANGED <<dataFile, enrichRaw, enrichRuns, appended, clock>>
    /\ UNCHANGED <<pollVars, flowVars, lengthVars, appVars>>

\* await fs.writeFile(DATA_FILE, enriched lines): the file is replaced
EnrichWrite ==
    /\ enrichPc = "backedUp"
    /\ dataFile' = enrichedFile(enrichRaw)
    /\ enrichPc' = "idle"
    /\ UNCHANGED <<backupFile, enrichRaw, enrichRuns, appended, clock>>
    /\ UNCHANGED <<pollVars, flowVars, lengthVars, appVars>>

\* Polls that append and enrichment runs, in every interleaving.
FileNext ==
    \/ \E routes \in SeqsUpTo(RoutePool, MaxAppended - Len(appended)) :
          AppendSamplesCall(routes)
    \/ EnrichRead
    \/ EnrichBackup
    \/ EnrichWrite

FileSpec == FileInit /\ [][FileNext]_vars

(***************************************************************************)
(* collectSamples (src/poller.js) run by the poll control server           *)
(* (scripts/poll_server.js, listed in README.md).                          *)
(***************************************************************************)
\* most polls the server accepts
MaxPolls == 2

\* metadata.allowedDirections of a segment: absent, an array, or another value
AllowedDirections(kind, list) == [kind |-> kind, list |-> list]

PollSegment(id, allowed) == [id |-> id, allowedDirections |-> allowed]

\* the lists of the thirteen shipped segments, in file order
ShippedAllowedDirections ==
    <<<<"forward", "reverse">>, <<"forward", "reverse">>, <<"forward">>,
      <<"forward", "reverse">>, <<"forward">>, <<"forward", "reverse">>,
      <<"forward", "reverse">>, <<"reverse">>, <<"forward", "reverse">>,
      <<"forward", "reverse">>, <<"forward", "reverse">>, <<"forward", "reverse">>,
      <<"forward", "reverse">>>>

\* configurations of two segments: the first without a list or with a
\* shipped one, the second with a shipped list, an empty one, or a string
PollConfigs ==
    {<<PollSegment("via-pontida", first), PollSegment("via-melghera", second)>> :
        first \in {AllowedDirections("absent", <<>>)} \cup
                  {AllowedDirections("array", ShippedAllowedDirections[i]) : i \in {1, 3}},
        second \in {AllowedDirections("array", ShippedAllowedDirections[8]),
                    AllowedDirections("array", <<>>),
                    AllowedDirections("other", <<>>)}}

\* variant: a segment without a list is polled forward only
allowedDirectionsOf_ForwardByDefault(segment) ==
    IF segment.allowedDirections.kind = "absent"
    THEN AllowedDirections("array", <<"forward">>)
    ELSE segment.allowedDirections

\* segment?.metadata?.allowedDirections ?? ["forward", "reverse"]
allowedDirectionsOf(segment) ==
    IF segment.allowedDirections.kind = "absent"
    THEN AllowedDirections("array", <<"forward", "reverse">>)
    ELSE segment.allowedDirections

\* !Array.isArray(allowedDirections) || allowedDirections.length === 0
IsSkipped(segment) ==
    LET allowed == allowedDirectionsOf(segment)
    IN  allowed.kind # "array" \/ Len(allowed.list) = 0

\* what the routes API answers for a direction, when it answers
RouteFor(direction) ==
    IF direction = "forward"
    THEN [durationSeconds |-> Whole(90), staticDurationSeconds |-> Whole(60)]
    ELSE [durationSeconds |-> Whole(45), staticDurationSeconds |-> NULL]

PollInit ==
    /\ pollSegments \in PollConfigs
    /\ isPolling = FALSE
    /\ pollPc = "idle"
    /\ segmentIndex = 1
    /\ directionIndex = 1
    /\ collected = <<>>
    /\ requested = <<>>
    /\ lastResponse = NoResponse
    /\ pollsStarted = 0
    /\ collectionsRunning = 0
    /\ FileIdle
    /\ FlowIdle
    /\ LengthIdle
    /\ AppIdle

Response(request, status, count) == [request |-> request, status |-> status, count |-> count]

\* variant: the server starts a collection for every POST /poll
pollAccepted_Always(flag) == TRUE

\* if (isPolling) { 409 } else the poll starts
pollAccepted(flag) == ~flag

\* POST /poll
PostPoll ==
    IF pollAccepted(isPolling)
    THEN /\ pollsStarted < MaxPolls
         /\ isPolling' = TRUE
         /\ pollPc' = "starting"
         /\ segmentIndex' = 1
         /\ directionIndex' = 1
         /\ collected' = <<>>
         /\ requested' = <<>>
         /\ pollsStarted' = pollsStarted + 1
         /\ collectionsRunning' = collectionsRunning + 1
         /\ UNCHANGED <<pollSegments, lastResponse>>
         /\ UNCHANGED <<fileVars, flowVars, lengthVars, appVars>>
    ELSE /\ lastResponse' = Response("POST /poll", 409, 0)
         /\ UNCHANGED <<pollSegments, isPolling, pollPc, segmentIndex, directionIndex,
                        collected, requested, pollsStarted, collectionsRunning>>
         /\ UNCHANGED <<fileVars, flowVars, lengthVars, appVars>>

\* the status of a request that is not POST /poll
StatusOf(request) ==
    CASE request = "OPTIONS" -> 204
      [] request = "GET /health" -> 200
      [] OTHER -> 404

OtherRequests == {"OPTIONS", "GET /health", "GET /samples"}

\* OPTIONS, GET /health, or a path the server does not know
OtherRequest(request) ==
    /\ lastResponse' = Response(request, StatusOf(request), 0)
    /\ UNCHANGED <<pollSegments, isPolling, pollPc, segmentIndex, directionIndex,
                   collected, requested, pollsStarted, collectionsRunning>>
    /\ UNCHANGED <<fileVars, flowVars, lengthVars, appVars>>

\* variant: without the finally block, a poll that threw leaves the flag set
flagAfterCollect_StuckOnError(threw) == threw

\* finally { isPolling = false }
flagAfterCollect(threw) == FALSE

\* collectSamples ended: the response is sent and the flag released
EndOfCollect(threw) ==
    /\ pollPc' = IF threw THEN "threw" ELSE "returned"
    /\ lastResponse' =
          IF threw THEN Response("POST /poll", 500, 0)
          ELSE Response("POST /poll", 200, Len(collected))
    /\ isPolling' = flagAfterCollect(threw)
    /\ collectionsRunning' = collectionsRunning - 1

\* await ensureDataDir(), then the weather snapshot, which never throws
EnsureDataDir(ok) ==
    /\ pollPc = "starting"
    /\ IF ok
       THEN /\ pollPc' = "collecting"
            /\ UNCHANGED <<isPolling, lastResponse, collectionsRunning>>
       ELSE EndOfCollect(TRUE)
    /\ UNCHANGED <<pollSegments, segmentIndex, directionIndex, collected, requested,
                   pollsStarted>>
    /\ UNCHANGED <<fileVars, flowVars, lengthVars, appVars>>

InLoop == pollPc = "collecting" /\ segmentIndex <= Len(pollSegments)

\* a segment whose list is empty or not an array: warn and continue
SkipSegment ==
    /\ InLoop
    /\ IsSkipped(pollSegments[segmentIndex])
    /\ segmentIndex' = segmentIndex + 1
    /\ directionIndex' = 1
    /\ UNCHANGED <<pollSegments, isPolling, pollPc, collected, requested, lastResponse,
                   pollsStarted, collectionsRunning>>
    /\ UNCHANGED <<fileVars, flowVars, lengthVars, appVars>>

\* variant: a failed request ends the loops
positionAfter_AbortsOnFailure(ok, index, count) ==
    IF ~ok THEN <<Len(pollSegments) + 1, 1>>
    ELSE IF index < count THEN <<segmentIndex, index + 1>>
    ELSE <<segmentIndex + 1, 1>>

\* the loops go on after a request, failed or not: the next direction of
\* the list, or the next segment
positionAfter(ok, index, count) ==
    IF index < count THEN <<segmentIndex, index + 1>> ELSE <<segmentIndex + 1, 1>>

\* one pass of the inner loop: fetchTravelTime returned a sample, which
\* is pushed, or threw, which is logged
FetchTravelTime(ok) ==
    /\ InLoop
    /\ ~IsSkipped(pollSegments[segmentIndex])
    /\ LET segment == pollSegments[segmentIndex]
           list == allowedDirectionsOf(segment).list
           direction == list[directionIndex]
           route == RouteFor(direction)
           sample == RawSample(segment.id, direction, clock + 1,
                               route.durationSeconds, route.staticDurationSeconds)
           position == positionAfter(ok, directionIndex, Len(list))
       IN  /\ requested' =
                 Append(requested, [id |-> segment.id, direction |-> direction, ok |-> ok])
           /\ collected' = IF ok THEN Append(collected, sample) ELSE collected
           /\ segmentIndex' = position[1]
           /\ directionIndex' = position[2]
    /\ clock' = clock + 1
    /\ UNCHANGED <<pollSegments, isPolling, pollPc, lastResponse, pollsStarted,
                   collectionsRunning>>
    /\ UNCHANGED <<dataFile, backupFile, enrichPc, enrichRaw, enrichRuns, appended>>
    /\ UNCHANGED <<flowVars, lengthVars, appVars>>

\* after the loops: if (samples.length > 0) await appendSamples(samples),
\* which writes or rejects; then collectSamples returns
FinishPoll(written) ==
    /\ pollPc = "collecting"
    /\ segmentIndex > Len(pollSegments)
    /\ Len(collected) = 0 => written
    /\ IF Len(collected) > 0 /\ written
       THEN /\ dataFile' = appendSamples(dataFile, collected)
            /\ appended' = appendSamples(appended, collected)
       ELSE UNCHANGED <<dataFile, appended>>
    /\ EndOfCollect(~written)
    /\ UNCHANGED <<pollSegments, segmentIndex, directionIndex, collected, requested,
                   pollsStarted>>
    /\ UNCHANGED <<backupFile, enrichPc, enrichRaw, enrichRuns, clock>>
    /\ UNCHANGED <<flowVars, lengthVars, appVars>>

\* The poll control server and the polls it runs.
PollNext ==
    \/ PostPoll
    \/ \E request \in OtherRequests : OtherRequest(request)
    \/ \E ok \in BOOLEAN : EnsureDataDir(ok)
    \/ SkipSegment
    \/ \E ok \in BOOLEAN : FetchTravelTime(ok)
    \/ \E written \in BOOLEAN : FinishPoll(written)

PollSpec == PollInit /\ [][PollNext]_vars

(***************************************************************************)
(* Properties.                                                             *)
(***************************************************************************)
Returned == lastOutcome = "returned"

\* x is present and strictly positive
StrictlyPositive(x) == x.t \in {"min", "inf"} \/ (x.t = "num" /\ x.v > 0)

\* x is a finite number or null
FiniteOrNull(x) == x.t \in {"num", "min", "null"}

AllDerivedNull(r) ==
    /\ r.capacityVph = NULL
    /\ r.lengthMeters = NULL
    /\ r.freeFlowSpeedKph = NULL
    /\ r.volumeCapacityRatio = NULL
    /\ r.derivedFlowVph = NULL
    /\ r.flowConfidence = "low"

\* C1: a sample whose segmentId is not in the segment configuration (not in
\* the mapping the lookup reads; and, while the mapping is in step with the
\* array, not in the array) gets capacityVph, lengthMeters,
\* freeFlowSpeedKph, volumeCapacityRatio and derivedFlowVph null and
\* confidence "low", whatever its two durations are.
C1_UnknownSegmentAllNull ==
    Returned =>
        /\ lastSample.segmentId \notin DOMAIN segmentMetadata => AllDerivedNull(lastResult)
        /\ (~configDirty /\ lastSample.segmentId \notin SegmentIds(streetSegments))
              => AllDerivedNull(lastResult)

C1_Witness ==
    /\ Returned
    /\ lastSample.segmentId = UnknownSegmentId
    /\ lastSample.durationSeconds = Whole(90)
    /\ lastSample.staticDurationSeconds = Whole(0 - 5)
    /\ AllDerivedNull(lastResult)

\* C2: for a known segment, unless durationSeconds and staticDurationSeconds
\* are both present and strictly positive and the capacity is present and
\* strictly positive, volumeCapacityRatio and derivedFlowVph are null and
\* confidence is "low" (so a non-null ratio or flow implies all three).
C2_FlowOnlyFromPositiveInputs ==
    (Returned /\ HasMeta(lastSample.segmentId)) =>
        LET derivable ==
                /\ StrictlyPositive(lastSample.durationSeconds)
                /\ StrictlyPositive(lastSample.staticDurationSeconds)
                /\ StrictlyPositive(segmentMetadata[lastSample.segmentId].capacityVph)
        IN  ~derivable =>
                /\ lastResult.volumeCapacityRatio = NULL
                /\ lastResult.derivedFlowVph = NULL
                /\ lastResult.flowConfidence = "low"

C2_Witness ==
    /\ Returned
    /\ lastSample.segmentId = "via-pontida"
    /\ lastSample.durationSeconds = Whole(0)
    /\ lastSample.staticDurationSeconds = Whole(60)
    /\ lastResult.volumeCapacityRatio = NULL
    /\ lastResult.capacityVph = Whole(750)

\* d <= s on strictly positive values
PositiveLe(d, s) ==
    CASE s.t = "inf" -> TRUE
      [] d.t = "inf" -> FALSE
      [] d.t = "min" -> TRUE
      [] s.t = "min" -> FALSE
      [] OTHER -> d.v <= s.v

\* C3: on a known segment with positive capacity, durationSeconds <=
\* staticDurationSeconds (both strictly positive) gives volumeCapacityRatio
\* exactly 0, derivedFlowVph exactly 0 and confidence "high".
C3_FreeFlowIsZeroHigh ==
    (/\ Returned
     /\ HasMeta(lastSample.segmentId)
     /\ StrictlyPositive(lastSample.durationSeconds)
     /\ StrictlyPositive(lastSample.staticDurationSeconds)
     /\ PositiveLe(lastSample.durationSeconds, lastSample.staticDurationSeconds))
    => (StrictlyPositive(segmentMetadata[lastSample.segmentId].capacityVph) =>
            /\ lastResult.volumeCapacityRatio = Num(0)
            /\ lastResult.derivedFlowVph = Num(0)
            /\ lastResult.flowConfidence = "high")

C3_Witness ==
    /\ Returned
    /\ lastSample.segmentId = "via-pontida"
    /\ lastSample.durationSeconds = Whole(45)
    /\ lastSample.staticDurationSeconds = Whole(60)
    /\ lastResult.volumeCapacityRatio = Num(0)
    /\ lastResult.flowConfidence = "high"

\* the label the stated order gives for a ratio and a flow
LabelInOrder(ratio, flow) ==
    IF ratio.t = "null" \/ flow.t = "null" THEN "low"
    ELSE IF ratio.v * 10 <= 8 * FP THEN "high"
    ELSE IF ratio.v * 10 > 12 * FP THEN "low"
    ELSE "medium"

\* C4: the confidence label is "low" when the ratio or the flow is null,
\* else "high" when ratio <= 0.8, else "low" when ratio > 1.2, else
\* "medium"; 90 s against 60 s on a segment with the default coefficients
\* is labelled "low".
C4_ConfidenceOrder ==
    (Returned /\ HasMeta(lastSample.segmentId)) =>
        /\ lastResult.flowConfidence =
              LabelInOrder(lastResult.volumeCapacityRatio, lastResult.derivedFlowVph)
        /\ (/\ lastSample.segmentId = "via-pontida"
            /\ lastSample.durationSeconds = Whole(90)
            /\ lastSample.staticDurationSeconds = Whole(60))
           => (lastResult.flowConfidence = "low"
               /\ lastResult.volumeCapacityRatio # NULL)

C4_Witness ==
    /\ Returned
    /\ lastSample.segmentId = "via-pontida"
    /\ lastSample.durationSeconds = Whole(66)
    /\ lastSample.staticDurationSeconds = Whole(60)
    /\ lastResult.flowConfidence = "medium"

\* the ratio returned for the last sample's segment and static duration
\* when its durationSeconds is d
RatioAt(d) ==
    metricsFor(segmentMetadata[lastSample.segmentId],
               [lastSample EXCEPT !.durationSeconds = d]).volumeCapacityRatio

\* the last call is one the monotonicity statement covers
MonotoneCase ==
    /\ Returned
    /\ HasMeta(lastSample.segmentId)
    /\ StrictlyPositive(lastSample.durationSeconds)
    /\ StrictlyPositive(lastSample.staticDurationSeconds)
    /\ StrictlyPositive(segmentMetadata[lastSample.segmentId].capacityVph)

LaterDurations ==
    {d \in DurationValues :
        StrictlyPositive(d) /\ PositiveLe(lastSample.durationSeconds, d)}

C6_OutputsFiniteOrNull ==
    Returned =>
        /\ FiniteOrNull(lastResult.lengthMeters)
        /\ FiniteOrNull(lastResult.freeFlowSpeedKph)
        /\ FiniteOrNull(lastResult.capacityVph)
        /\ FiniteOrNull(lastResult.volumeCapacityRatio)
        /\ FiniteOrNull(lastResult.derivedFlowVph)
        /\ ~JsLt(lastResult.volumeCapacityRatio, Num(0))
             \/ lastResult.volumeCapacityRatio = NULL

\* durationSeconds or staticDurationSeconds is null, zero or negative
MissingDuration(sample) ==
    \/ ~StrictlyPositive(sample.durationSeconds)
    \/ ~StrictlyPositive(sample.staticDurationSeconds)

\* C7: a call on a sample object never throws, whatever its two durations
\* are (null, zero, negative included): it returns a record with a label,
\* and where a duration is missing the ratio and the flow are null and the
\* label is "low".
C7_NeverThrowsOnSampleObject ==
    (lastOutcome # "none" /\ lastSample.isObject) =>
        /\ lastOutcome = "returned"
        /\ lastResult.flowConfidence \in {"high", "medium", "low"}
        /\ MissingDuration(lastSample) =>
              /\ lastResult.volumeCapacityRatio = NULL
              /\ lastResult.derivedFlowVph = NULL
              /\ lastResult.flowConfidence = "low"

C7_Witness ==
    /\ lastOutcome = "returned"
    /\ lastSample.isObject
    /\ lastSample.segmentId = "via-pontida"
    /\ lastSample.durationSeconds = NULL
    /\ lastSample.staticDurationSeconds = Whole(0 - 5)
    /\ lastResult.flowConfidence = "low"

ConfiguredAlpha(segment) ==
    IF segment.metadata.defined /\ segment.metadata.flowModel.defined
    THEN segment.metadata.flowModel.alpha
    ELSE Num((15 * FP) \div 100)

ConfiguredBeta(segment) ==
    IF segment.metadata.defined /\ segment.metadata.flowModel.defined
    THEN segment.metadata.flowModel.beta
    ELSE 4

\* ((duration / static - 1) / alpha) ^ (1 / beta)
InvertBpr(duration, staticDuration, alpha, beta) ==
    JsRoot(JsDiv(JsSub(JsDiv(duration, staticDuration), Num(FP)), alpha), beta)

\* the last call is a finite duration above a finite static duration on a
\* segment with positive capacity
CongestedCase ==
    /\ Returned
    /\ HasMeta(lastSample.segmentId)
    /\ lastSample.durationSeconds.t = "num"
    /\ lastSample.staticDurationSeconds.t = "num"
    /\ lastSample.staticDurationSeconds.v > 0
    /\ lastSample.durationSeconds.v > lastSample.staticDurationSeconds.v
    /\ StrictlyPositive(segmentMetadata[lastSample.segmentId].capacityVph)

\* C9: the ratio returned for duration > static is the BPR inversion with
\* the segment's flowModel coefficients when it has them and with
\* alpha = 0.15, beta = 4 otherwise, and those are the coefficients
\* reported.
C9_UsesSegmentCoefficients ==
    CongestedCase =>
        LET segment == SegmentById(lastSample.segmentId)
        IN  /\ lastResult.volumeCapacityRatio =
                  InvertBpr(lastSample.durationSeconds, lastSample.staticDurationSeconds,
                            ConfiguredAlpha(segment), ConfiguredBeta(segment))
            /\ reportedFlowModel.alpha = ConfiguredAlpha(segment)
            /\ reportedFlowModel.beta = ConfiguredBeta(segment)

\* lanes x laneCapacityVph with the defaults 1 and 900
ConfiguredCapacity(segment) ==
    LET meta == segment.metadata
        lanes == IF meta.defined /\ meta.lanes # NULL THEN meta.lanes.v ELSE FP
        perLane == IF meta.defined /\ meta.laneCapacityVph # NULL
                   THEN meta.laneCapacityVph.v ELSE 900 * FP
    IN  Num((lanes * perLane) \div FP)

\* C10: every resolved segment has capacityVph = lanes x laneCapacityVph,
\* lanes defaulting to 1 and laneCapacityVph to 900 (900 for a segment with
\* no metadata), and deriveFlowMetrics returns that capacityVph for it.
C10_CapacityIsLanesTimesLaneCapacity ==
    /\ \A id \in DOMAIN segmentMetadata :
          segmentMetadata[id].capacityVph = ConfiguredCapacity(SegmentById(id))
    /\ ~configDirty =>
          \A i \in 1..Len(streetSegments) : HasMeta(streetSegments[i].id)
    /\ (Returned /\ HasMeta(lastSample.segmentId)) =>
          lastResult.capacityVph = ConfiguredCapacity(SegmentById(lastSample.segmentId))
    /\ HasMeta("via-melghera") => segmentMetadata["via-melghera"].capacityVph = Whole(900)

C10_Witness ==
    /\ Returned
    /\ lastSample.segmentId = "via-melghera"
    /\ lastResult.capacityVph = Whole(900)
    /\ HasMeta("zero-lane-stub")

\* C11: freeFlowSpeedKph is non-null exactly when the segment is known, its
\* length is available and staticDurationSeconds is present and strictly
\* positive, whether or not flow can be derived: with a null, zero or
\* negative durationSeconds the record still carries freeFlowSpeedKph, next
\* to a null volumeCapacityRatio and a null derivedFlowVph.
C11_FreeFlowSpeedIndependentOfFlow ==
    Returned =>
        /\ lastResult.freeFlowSpeedKph # NULL <=>
              /\ HasMeta(lastSample.segmentId)
              /\ lastResult.lengthMeters # NULL
              /\ StrictlyPositive(lastSample.staticDurationSeconds)
        /\ (/\ HasMeta(lastSample.segmentId)
            /\ lastResult.lengthMeters # NULL
            /\ StrictlyPositive(lastSample.staticDurationSeconds)
            /\ ~StrictlyPositive(lastSample.durationSeconds))
           => /\ lastResult.freeFlowSpeedKph # NULL
              /\ lastResult.volumeCapacityRatio = NULL
              /\ lastResult.derivedFlowVph = NULL

C11_Witness ==
    /\ Returned
    /\ lastSample.segmentId = "via-pontida"
    /\ lastSample.durationSeconds = NULL
    /\ lastSample.staticDurationSeconds = Whole(60)
    /\ lastResult.freeFlowSpeedKph.t = "num"
    /\ lastResult.freeFlowSpeedKph.v > 0
    /\ lastResult.volumeCapacityRatio = NULL
    /\ lastResult.derivedFlowVph = NULL

\* the record as a function of the sample's fields and the mapping alone
RecordOf(sample, mapping) ==
    IF sample.segmentId \notin DOMAIN mapping THEN UnknownSegmentMetrics
    ELSE metricsFor(mapping[sample.segmentId], sample)

\* a step that is a call of deriveFlowMetrics
IsDeriveCallStep == lastOutcome' # "none"

LengthReturned == lengthOutcome.outcome = "returned"

PointCount == IF endpointsArg.present THEN Len(endpointsArg.points) ELSE 0

\* C13: for an input with fewer than 2 points (missing, empty, one point)
\* the call returns null, not 0 and not an error; for 2 or more points it
\* returns a number; two identical points give 0, which is not null.
C13_ShortInputIsUnavailable ==
    LengthReturned =>
        /\ PointCount < 2 => lengthOutcome.value = NULL
        /\ PointCount >= 2 => lengthOutcome.value.t = "num"
        /\ (PointCount = 2 /\ endpointsArg.points[1] = endpointsArg.points[2])
              => (lengthOutcome.value = Num(0) /\ lengthOutcome.value # NULL)

\* a single point: unavailable
C13_Witness ==
    /\ LengthReturned
    /\ endpointsArg.present
    /\ Len(endpointsArg.points) = 1
    /\ lengthOutcome.value = NULL

\* the distances of the consecutive pairs of q, summed from the far end
RECURSIVE PairwiseTotal(_)
PairwiseTotal(q) ==
    IF Len(q) < 2 THEN 0
    ELSE PairwiseTotal(SubSeq(q, 1, Len(q) - 1))
         + haversineDistanceMeters(q[Len(q) - 1], q[Len(q)]).v

\* C14: for n >= 2 points the result is the sum of the n-1 distances
\* between consecutive points, each once and in order; it equals the length
\* of p1..pk plus the length of pk..pn for every 1 < k < n, and it is
\* never negative.
C14_LengthIsSumOfLegs ==
    (LengthReturned /\ PointCount >= 2) =>
        LET q == endpointsArg.points
            n == Len(q)
        IN  /\ lengthOutcome.value.t = "num"
            /\ lengthOutcome.value.v = PairwiseTotal(q)
            /\ lengthOutcome.value.v >= 0
            /\ \A k \in 2..(n - 1) :
                  lengthOutcome.value.v =
                      computeSegmentLengthMeters(SubSeq(q, 1, k)).v
                      + computeSegmentLengthMeters(SubSeq(q, k, n)).v

\* three distinct points: a detour longer than the straight line
C14_Witness ==
    /\ LengthReturned
    /\ PointCount = 3
    /\ endpointsArg.points[1] # endpointsArg.points[2]
    /\ endpointsArg.points[2] # endpointsArg.points[3]
    /\ endpointsArg.points[1] # endpointsArg.points[3]
    /\ lengthOutcome.value.v >
          haversineDistanceMeters(endpointsArg.points[1], endpointsArg.points[3]).v

(***************************************************************************)
(* Properties of the dashboard.                                            *)
(***************************************************************************)
\* the 5-minute window of the UTC clock an instant lies in
WindowIndex(value) == FieldsMs(value) \div (5 * 60 * 1000)

LoadedTimestamps == {samples[i].requestedAt : i \in 1..Len(samples)}

CountIn(q, v) == Cardinality({i \in 1..Len(q) : q[i] = v})

RECURSIVE SumOver(_, _)
SumOver(f, S) ==
    IF S = {} THEN 0
    ELSE LET x == CHOOSE y \in S : TRUE
         IN  f[x] + SumOver(f, S \ {x})

\* how often v occurs in all groups together
CountInGroups(groups, v) ==
    SumOver([i \in 1..Len(groups) |-> CountIn(groups[i].samples, v)], 1..Len(groups))

KeysOf(groups) == [i \in 1..Len(groups) |-> groups[i].key]

\* the samples in every order
Reorderings ==
    LET n == Len(samples)
    IN  {[i \in 1..n |-> samples[p[i]]] : p \in Permutations(1..n)}

\* C16: the groups partition the samples: every sample is in exactly one
\* group, the one keyed by its own bucket key; no group is empty; the keys
\* are pairwise distinct and strictly ascending in time; and the keys and
\* the members of each group are the same for every load order.
C16_GroupsPartitionSamples ==
    LET groups == snapshotGroupsAsc
    IN  /\ \A i \in 1..Len(groups) :
              /\ Len(groups[i].samples) > 0
              /\ \A k \in 1..Len(groups[i].samples) :
                    normaliseTimestampToWindow(groups[i].samples[k].requestedAt)
                        = groups[i].key
        /\ \A v \in SamplePool : CountInGroups(groups, v) = CountIn(samples, v)
        /\ \A i, j \in 1..Len(groups) : i # j => groups[i].key # groups[j].key
        /\ \A i \in 1..(Len(groups) - 1) :
              /\ DateParse(groups[i].key).t = "date"
              /\ DateParse(groups[i + 1].key).t = "date"
              /\ DateParse(groups[i].key).ms < DateParse(groups[i + 1].key).ms
        /\ \A other \in Reorderings :
              LET regrouped == SnapshotGroupsOf(other)
              IN  /\ KeysOf(regrouped) = KeysOf(groups)
                  /\ \A i \in 1..Len(groups) : \A v \in SamplePool :
                        CountIn(regrouped[i].samples, v) = CountIn(groups[i].samples, v)

\* loaded latest first: two groups, one of two samples, and another load
\* order changes only the order inside that group
C16_Witness ==
    /\ Len(samples) = 3
    /\ Len(snapshotGroupsAsc) = 2
    /\ DateParse(samples[1].requestedAt).ms > DateParse(samples[3].requestedAt).ms
    /\ Len(snapshotGroupsAsc[2].samples) = 2
    /\ \E other \in Reorderings :
          /\ SnapshotGroupsOf(other) # snapshotGroupsAsc
          /\ KeysOf(SnapshotGroupsOf(other)) = KeysOf(snapshotGroupsAsc)

HasGroups == Len(snapshotGroupsAsc) > 0

EarliestMs == DateParse(earliestGroupKey).ms

LatestMs == DateParse(latestGroupKey).ms

Later(a, b) == IF a > b THEN a ELSE b

\* the hours a relative preset covers
PresetHours(preset) ==
    CASE preset = "LAST_24_HOURS" -> 24
      [] preset = "LAST_48_HOURS" -> 48
      [] preset = "LAST_7_DAYS" -> 7 * 24

\* C17: with a relative preset the window ends at the latest bucket key and
\* starts at that key minus the preset duration, raised to the earliest
\* bucket key when that is later; with the full-range preset it is
\* [earliest key, latest key].  The window is a function of the keys and
\* the preset alone.
C17_PresetWindow ==
    (HasGroups /\ timePreset # "CUSTOM") =>
        LET range == activeRange
            earliestMs == EarliestMs
            latestMs == LatestMs
        IN  /\ timePreset \in {"LAST_24_HOURS", "LAST_48_HOURS", "LAST_7_DAYS"} =>
                  /\ range.end = DateOf(latestMs)
                  /\ range.start =
                        DateOf(Later(latestMs - (PresetHours(timePreset) * 3600000),
                                     earliestMs))
            /\ timePreset = "FULL_RANGE" =>
                  range = Range(DateOf(earliestMs), DateOf(latestMs))

\* last 24 hours of a dataset that starts nine days before its latest key:
\* the window starts 24 hours before the latest key, after the earliest
C17_Witness ==
    /\ HasGroups
    /\ timePreset = "LAST_24_HOURS"
    /\ latestGroupKey = TimeString("iso", 12, 10, 0, 0, 0)
    /\ earliestGroupKey = TimeString("iso", 3, 8, 0, 0, 0)
    /\ activeRange.start = DateParse(TimeString("iso", 11, 10, 0, 0, 0))
    /\ activeRange.end = DateParse(latestGroupKey)

\* a custom value that is absent or cannot be parsed
Absent(value) == value.kind \in {"empty", "bad", "null"}

\* a supplied custom value lies within [lo, hi]
SuppliedBetween(value, lo, hi) ==
    /\ ~Absent(value)
    /\ lo <= DateParse(value).ms
    /\ DateParse(value).ms <= hi

\* a supplied custom value lies within the dataset
SuppliedWithin(value) == SuppliedBetween(value, EarliestMs, LatestMs)

\* C18: in custom mode each bound is the supplied value and is defaulted on
\* its own: an absent or unparseable start becomes the earliest key while
\* a supplied end is kept, an absent or unparseable end becomes the latest
\* key while a supplied start is kept.
C18_CustomBoundsDefaultSeparately ==
    (timePreset = "CUSTOM" /\ HasGroups) =>
        LET range == activeRange
            lo == EarliestMs
            hi == LatestMs
            startWithin == SuppliedBetween(customStart, lo, hi)
            endWithin == SuppliedBetween(customEnd, lo, hi)
        IN  /\ Absent(customStart) => range.start = DateOf(lo)
            /\ (Absent(customStart) /\ endWithin) => range.end = DateParse(customEnd)
            /\ (Absent(customEnd) /\ (Absent(customStart) \/ startWithin))
                  => range.end = DateOf(hi)
            /\ (Absent(customEnd) /\ startWithin) => range.start = DateParse(customStart)
            /\ (/\ startWithin
                /\ endWithin
                /\ DateParse(customStart).ms <= DateParse(customEnd).ms)
                  => range = Range(DateParse(customStart), DateParse(customEnd))

\* the start input was cleared while the end holds a time inside the
\* dataset: the window runs from the earliest key to the supplied end
C18_Witness ==
    /\ HasGroups
    /\ timePreset = "CUSTOM"
    /\ customStart = EmptyInput
    /\ SuppliedWithin(customEnd)
    /\ DateParse(customEnd).ms < LatestMs
    /\ EarliestMs < DateParse(customEnd).ms
    /\ activeRange = Range(DateOf(EarliestMs), DateParse(customEnd))

WithinDataset(date) ==
    /\ date.t = "date"
    /\ EarliestMs <= date.ms
    /\ date.ms <= LatestMs

\* C19: whenever there is a bucket, for every preset and every custom start
\* and end, both bounds of the window lie within [earliest key, latest key].
C19_WindowWithinDataset ==
    HasGroups =>
        LET range == activeRange
        IN  /\ WithinDataset(range.start)
            /\ WithinDataset(range.end)

\* the window as it is before the end is compared with the start
RangeBeforeInversionStep ==
    rangeBeforeInversionStep(snapshotGroupsAsc, timePreset, customStart, customEnd)

\* C20: whenever there is a bucket the window has start <= end; where the
\* start would be after the end, the end is set to the start; and once the
\* effects have run, a custom end is not before the custom start.
C20_WindowNeverInverted ==
    /\ HasGroups =>
          LET range == activeRange
              before == RangeBeforeInversionStep
          IN  /\ range.start.t = "date"
              /\ range.end.t = "date"
              /\ range.start.ms <= range.end.ms
              /\ DateLt(before.end, before.start)
                    => /\ range.start = before.start
                       /\ range.end = range.start
    /\ (/\ ~effectsPending
        /\ timePreset = "CUSTOM"
        /\ ~Absent(customStart)
        /\ ~Absent(customEnd))
          => DateParse(customStart).ms <= DateParse(customEnd).ms

\* a custom end before the custom start, both inside the dataset: the
\* window is the single instant of the start
C20_Witness ==
    /\ HasGroups
    /\ timePreset = "CUSTOM"
    /\ SuppliedWithin(customStart)
    /\ ~Absent(customEnd)
    /\ DateLt(RangeBeforeInversionStep.end, RangeBeforeInversionStep.start)
    /\ activeRange = Range(DateParse(customStart), DateParse(customStart))

\* the key parses as a date
Parses(key) == key.kind \in {"iso", "local"}

\* the time of a parseable key lies within the range, bounds included; a
\* bound that is absent or not a date bounds nothing
WithinRange(key, range) ==
    /\ Parses(key)
    /\ range.start.t = "date" => range.start.ms <= DateParse(key).ms
    /\ range.end.t = "date" => DateParse(key).ms <= range.end.ms

\* position of a key in a timeline, from 1
PositionOf(timeline, key) == CHOOSE i \in 1..Len(timeline) : timeline[i].key = key

\* part is made of entries of whole, in the order they have in whole
IsSubSequence(part, whole) ==
    /\ \A i \in 1..Len(part) :
          \E j \in 1..Len(whole) : whole[j] = part[i]
    /\ \A i \in 1..Len(part) : \A j \in (i + 1)..Len(part) :
          PositionOf(whole, part[i].key) < PositionOf(whole, part[j].key)

\* C21: a bucket of the timeline is in the visible list exactly when its
\* key parses as a date and that time t satisfies start <= t <= end, both
\* bounds included; the visible list is a sub-sequence of the ascending
\* timeline; a bucket whose key does not parse is never visible.
C21_VisibleIffWithinRange ==
    LET range == activeRange
        timeline == snapshotGroupsAsc
        visible == visibleSnapshotGroupsAsc
    IN  /\ \A i \in 1..Len(timeline) :
              SomeKey(visible, timeline[i].key) <=> WithinRange(timeline[i].key, range)
        /\ IsSubSequence(visible, timeline)
        /\ \A i \in 1..Len(visible) : Parses(visible[i].key)

\* three buckets, one of them without a date: the one that starts exactly
\* at the end of the window is visible, the one before the window and the
\* one without a date are not
C21_Witness ==
    LET range == activeRange
        timeline == snapshotGroupsAsc
        visible == visibleSnapshotGroupsAsc
    IN  /\ Len(timeline) = 3
        /\ Len(visible) = 1
        /\ range.end.t = "date"
        /\ DateParse(visible[1].key).ms = range.end.ms
        /\ \E i \in 1..3 : ~Parses(timeline[i].key)
        /\ \E i \in 1..3 :
              /\ Parses(timeline[i].key)
              /\ range.start.t = "date"
              /\ DateParse(timeline[i].key).ms < range.start.ms

\* C22: with a non-empty visible list, the current snapshot key is the most
\* recent visible bucket when no key has been chosen; a key chosen in the
\* drop-down or on the slider is kept while it stays visible.  In AppSpec
\* neither control is ever used, so no key is ever chosen and, once the
\* effects have run, the key has to be the most recent visible one.
C22_DefaultIsMostRecentVisible ==
    LET visible == visibleSnapshotGroupsAsc
    IN  (~effectsPending /\ Len(visible) > 0) =>
            snapshotKey = visible[Len(visible)].key

\* C23: stale selections are never shown: in every render the samples
\* displayed for the current snapshot belong to a bucket of the visible list.
C23_DisplayedSamplesAreVisible ==
    LET visible == visibleSnapshotGroupsAsc
    IN  Len(samplesForSnapshot) > 0 => SomeKey(visible, snapshotKey)

\* the buckets of a timeline whose key parses as a date
ParseableGroups(timeline) == SelectSeq(timeline, LAMBDA group : Parses(group.key))

\* C30: when the dataset has a bucket with a parseable key and the preset
\* is not the custom one, the latest such bucket is in the visible list, so
\* the list is not empty, and once the selection effect has run the current
\* snapshot key is not null; over such a dataset the visible list is empty
\* in custom mode only.
C30_PresetShowsLatestBucket ==
    LET parseable == ParseableGroups(snapshotGroupsAsc)
        visible == visibleSnapshotGroupsAsc
    IN  Len(parseable) > 0 =>
            /\ timePreset # "CUSTOM" =>
                  /\ SomeKey(visible, parseable[Len(parseable)].key)
                  /\ Len(visible) > 0
                  /\ ~effectsPending =>
                        (NonEmpty(snapshotKey) /\ SomeKey(visible, snapshotKey))
            /\ Len(visible) = 0 => timePreset = "CUSTOM"

\* a relative preset over a timeline that has an older bucket outside the
\* window and a bucket without a date: the effects have run and the latest
\* dated bucket is the current snapshot
C30_Witness ==
    LET timeline == snapshotGroupsAsc
        parseable == ParseableGroups(timeline)
        visible == visibleSnapshotGroupsAsc
    IN  /\ timePreset \in {"LAST_24_HOURS", "LAST_48_HOURS", "LAST_7_DAYS"}
        /\ ~effectsPending
        /\ Len(parseable) = 2
        /\ Len(visible) = 1
        /\ snapshotKey = parseable[2].key

\* the fields of a line that fetchTravelTime wrote
RawFields(line) ==
    <<line.segmentId, line.direction, line.requestedAt, line.durationSeconds,
      line.staticDurationSeconds>>

RawFieldsOf(lines) == [i \in 1..Len(lines) |-> RawFields(lines[i])]

\* part occurs in whole, in order, possibly with other entries in between
RECURSIVE Embeds(_, _)
Embeds(whole, part) ==
    IF Len(part) = 0 THEN TRUE
    ELSE IF Len(whole) = 0 THEN FALSE
    ELSE IF Head(whole) = Head(part) THEN Embeds(Tail(whole), Tail(part))
    ELSE Embeds(Tail(whole), part)

\* C24: whatever the interleaving of appends and enrichment runs, every
\* sample that was appended is in the file, with its raw fields and in the
\* order of the appends.
C24_NoAppendedSampleLost ==
    Embeds(RawFieldsOf(NonBlankLines(dataFile)), RawFieldsOf(appended))

\* a line carries the metrics of enrichLine
IsEnriched(line) == line.flowEstimationModel.defined

\* C25: the file an enrichment run writes has one record per non-empty
\* line it read, in the same order and with the same raw fields, only the
\* six metrics and flowEstimationModel being set; and enriching that output
\* again gives the same file.
C25_EnrichmentKeepsRawFields ==
    /\ [](LET lines == NonBlankLines(dataFile)
              output == enrichedFile(dataFile)
          IN  /\ Len(lines) > 0 => Len(output) = Len(lines)
              /\ Len(lines) = 0 => output = <<BlankLine>>
              /\ \A i \in 1..Len(lines) :
                    /\ RawFields(output[i]) = RawFields(lines[i])
                    /\ output[i].blank = lines[i].blank
                    /\ output[i].isObject = lines[i].isObject
                    /\ IsEnriched(output[i])
              /\ enrichedFile(output) = output)
    /\ [][(enrichPc = "backedUp" /\ enrichPc' = "idle") =>
              /\ dataFile' = enrichedFile(enrichRaw)
              /\ RawFieldsOf(NonBlankLines(dataFile')) = RawFieldsOf(NonBlankLines(enrichRaw))]_vars

\* a second run has rewritten a file of two enriched lines, read after an
\* earlier run and an append: one enriched record per line, nothing blank
C25_Witness ==
    /\ enrichRuns = 2
    /\ enrichPc = "idle"
    /\ Len(dataFile) >= 2
    /\ \A i \in 1..Len(dataFile) : IsEnriched(dataFile[i])
    /\ dataFile = enrichedFile(enrichRaw)
    /\ \E i \in 1..Len(enrichRaw) : IsEnriched(enrichRaw[i])
    /\ \E i \in 1..Len(enrichRaw) : ~enrichRaw[i].blank /\ ~IsEnriched(enrichRaw[i])

ValidDirections == {"forward", "reverse"}

\* the directions the configuration asks for: those of the list, both when
\* the segment has no list, none when the value is not a list
ListedDirections(segment) ==
    CASE segment.allowedDirections.kind = "absent" -> <<"forward", "reverse">>
      [] segment.allowedDirections.kind = "array" -> segment.allowedDirections.list
      [] OTHER -> <<>>

Entries(list) == {list[i] : i \in 1..Len(list)}

ExpectedPairs(config) ==
    {<<config[i].id, direction>> :
        i \in 1..Len(config), direction \in ValidDirections} \cap
    UNION {{<<config[i].id, direction>> : direction \in Entries(ListedDirections(config[i]))} :
              i \in 1..Len(config)}

RequestedPairs == {<<requested[i].id, requested[i].direction>> : i \in 1..Len(requested)}

\* no two entries of the list are for the same segment and direction
OnePerPair(list, Pair(_)) ==
    \A i \in 1..Len(list) : \A j \in (i + 1)..Len(list) : Pair(list[i]) # Pair(list[j])

RequestPair(request) == <<request.id, request.direction>>

SamplePair(sample) == <<sample.segmentId, sample.direction>>

\* C26: a route is requested for a segment and direction exactly when the
\* direction is in the segment's allowedDirections, or the segment has no
\* list (then forward and reverse); a segment whose list is empty or not
\* an array is skipped; every shipped direction, and every sample's, is
\* forward or reverse; a poll has at most one sample per segment and
\* direction.
C26_RequestsFollowAllowedDirections ==
    /\ RequestedPairs \subseteq ExpectedPairs(pollSegments)
    /\ pollPc = "returned" => RequestedPairs = ExpectedPairs(pollSegments)
    /\ \A i \in 1..Len(pollSegments) :
          (pollSegments[i].allowedDirections.kind = "other"
           \/ (pollSegments[i].allowedDirections.kind = "array"
               /\ Len(pollSegments[i].allowedDirections.list) = 0)) =>
              \A direction \in ValidDirections :
                  <<pollSegments[i].id, direction>> \notin RequestedPairs
    /\ \A i \in 1..Len(ShippedAllowedDirections) :
          /\ Len(ShippedAllowedDirections[i]) > 0
          /\ Entries(ShippedAllowedDirections[i]) \subseteq ValidDirections
    /\ \A i \in 1..Len(collected) : collected[i].direction \in ValidDirections
    /\ OnePerPair(requested, RequestPair)
    /\ OnePerPair(collected, SamplePair)

\* a poll has returned over a configuration whose first segment has no
\* list and whose second is skipped: both directions of the first were
\* requested, and nothing for the second
C26_Witness ==
    /\ pollPc = "returned"
    /\ pollSegments[1].allowedDirections.kind = "absent"
    /\ pollSegments[2].allowedDirections.kind = "other"
    /\ RequestedPairs = {<<"via-pontida", "forward">>, <<"via-pontida", "reverse">>}
    /\ Len(collected) = 2

\* C27: the server runs one collection at a time: a POST /poll that arrives
\* while a poll runs is answered 409, starts no collection and leaves the
\* flag, the running poll and the file as they are.
C27_OnePollAtATime ==
    /\ [](collectionsRunning <= 1 /\ (isPolling <=> collectionsRunning = 1))
    /\ [][(lastResponse' # lastResponse /\ lastResponse'.status = 409) =>
              /\ isPolling
              /\ lastResponse'.request = "POST /poll"
              /\ UNCHANGED <<isPolling, pollPc, segmentIndex, directionIndex, collected,
                             requested, pollsStarted, collectionsRunning, fileVars>>]_vars
    /\ [][isPolling => pollsStarted' = pollsStarted]_vars

\* a POST /poll was answered 409 while a poll is between two requests
C27_Witness ==
    /\ lastResponse.status = 409
    /\ isPolling
    /\ pollPc = "collecting"
    /\ Len(requested) = 1
    /\ collectionsRunning = 1

Ended == pollPc \in {"returned", "threw"}

\* C28: when collectSamples has ended, with 200 or with 500, the flag is
\* released, so the next POST /poll is accepted; OPTIONS, GET /health and
\* unknown paths leave the flag alone.
C28_FlagReleasedAfterPoll ==
    /\ [](Ended => (~isPolling /\ pollAccepted(isPolling)))
    /\ [](isPolling <=> pollPc \in {"starting", "collecting"})
    /\ [][(~Ended /\ Ended') =>
              /\ ~isPolling'
              /\ lastResponse'.request = "POST /poll"
              /\ lastResponse'.status = IF pollPc' = "returned" THEN 200 ELSE 500]_vars
    /\ [][(Ended /\ ~Ended') => (isPolling' /\ pollPc' = "starting")]_vars
    /\ [][(lastResponse' # lastResponse /\ lastResponse'.request \in OtherRequests) =>
              UNCHANGED <<isPolling, pollPc, collectionsRunning>>]_vars

\* the first poll ended with 500 and the second one is running
C28_Witness ==
    /\ pollsStarted = 2
    /\ isPolling
    /\ lastResponse = Response("POST /poll", 500, 0)

\* the route requests of a poll over a configuration, in its order
RECURSIVE RequestsFrom(_, _)
RequestsFrom(config, i) ==
    IF i > Len(config) THEN <<>>
    ELSE LET list == ListedDirections(config[i])
         IN  [j \in 1..Len(list) |-> <<config[i].id, list[j]>>]
             \o RequestsFrom(config, i + 1)

\* the pairs of the requests that succeeded, in the order of the requests
SucceededPairs ==
    LET succeeded == SelectSeq(requested, LAMBDA request : request.ok)
    IN  [i \in 1..Len(succeeded) |-> RequestPair(succeeded[i])]

\* C29: a failed request does not end the poll: every pair of the
\* configuration is attempted, in its order; the samples collected are
\* those of the successful requests, in order; the file is written once,
\* after the last attempt, and not at all when nothing was collected.
C29_FailedFetchDoesNotAbortPoll ==
    /\ [](pollPc = "returned" =>
              [i \in 1..Len(requested) |-> RequestPair(requested[i])]
                  = RequestsFrom(pollSegments, 1))
    /\ []([i \in 1..Len(collected) |-> SamplePair(collected[i])] = SucceededPairs)
    /\ [][pollPc' = "collecting" => dataFile' = dataFile]_vars
    /\ [][(pollPc = "collecting" /\ pollPc' = "returned") =>
              /\ lastResponse'.count = Len(SucceededPairs)
              /\ RawFieldsOf(dataFile') = RawFieldsOf(dataFile) \o RawFieldsOf(collected)
              /\ Len(collected) = 0 => dataFile' = dataFile]_vars

\* a poll of three requests whose second one failed has returned: the
\* first and the third sample are the two lines of the file
C29_Witness ==
    /\ pollPc = "returned"
    /\ pollsStarted = 1
    /\ Len(requested) = 3
    /\ requested[1].ok /\ ~requested[2].ok /\ requested[3].ok
    /\ Len(collected) = 2
    /\ RawFieldsOf(dataFile) = RawFieldsOf(collected)

====
